---- MODULE Spec2Model ----
(***************************************************************************)
(* Model of the extractive summarization service                           *)
(* (backend/app/services/summarization.py).                                *)
(*                                                                         *)
(* Texts are strings; a character is a string of length 1.  The operators  *)
(* below compute what the Python functions compute, character by           *)
(* character.  The state machine assembles a transcript from pieces and    *)
(* then calls summarize_transcript on it.                                  *)
(*                                                                         *)
(* Sentence scores are Python floats in the source; here they are exact    *)
(* rationals <<numerator, denominator>> compared by cross-multiplication.  *)
(***************************************************************************)
EXTENDS Integers, Sequences, FiniteSets, TLC

(***************************************************************************)
(* Characters and character classes                                        *)
(***************************************************************************)

\* The i-th character of s.
Ch(s, i) == SubSeq(s, i, i)

\* Characters removed by str.strip() and matched by \s.
WHITESPACE == {" ", "\t", "\n", "\r", "\f"}

\* The characters of the lookbehind (?<=[.!?]).
TERMINATORS == {".", "!", "?"}

UPPER_LETTERS == "ABCDEFGHIJKLMNOPQRSTUVWXYZ"

LOWER_LETTERS == "abcdefghijklmnopqrstuvwxyz"

DIGITS == {"0", "1", "2", "3", "4", "5", "6", "7", "8", "9"}

LowerSet == {Ch(LOWER_LETTERS, i) : i \in 1..26}

UpperSet == {Ch(UPPER_LETTERS, i) : i \in 1..26}

\* \w of the regular expressions: a letter, a digit or the underscore.
IsWordChar(c) == c \in LowerSet \/ c \in UpperSet \/ c \in DIGITS \/ c = "_"

\* str.lower() on one character.
LowerCh(c) ==
    IF c \in UpperSet
    THEN Ch(LOWER_LETTERS, CHOOSE i \in 1..26 : Ch(UPPER_LETTERS, i) = c)
    ELSE c

\* str.lower(): character by character (the halves are converted apart to
\* keep the evaluation shallow).
RECURSIVE Lower(_)
Lower(s) ==
    IF Len(s) <= 1 THEN LowerCh(s)
    ELSE LET mid == Len(s) \div 2
         IN  Lower(SubSeq(s, 1, mid)) \o Lower(SubSeq(s, mid + 1, Len(s)))

\* Index of the first character at or after i that is not whitespace.
RECURSIVE SkipSpaces(_, _)
SkipSpaces(s, i) ==
    IF i > Len(s) \/ Ch(s, i) \notin WHITESPACE THEN i ELSE SkipSpaces(s, i + 1)

\* Index of the last character at or before i that is not whitespace.
RECURSIVE SkipSpacesBack(_, _)
SkipSpacesBack(s, i) ==
    IF i < 1 \/ Ch(s, i) \notin WHITESPACE THEN i ELSE SkipSpacesBack(s, i - 1)

\* str.strip()
Strip(s) == SubSeq(s, SkipSpaces(s, 1), SkipSpacesBack(s, Len(s)))

\* Index of the last character at or before i that is not a period.
RECURSIVE SkipDotsBack(_, _)
SkipDotsBack(s, i) ==
    IF i < 1 \/ Ch(s, i) # "." THEN i ELSE SkipDotsBack(s, i - 1)

\* Faulty variant of RStripDots: only the last period is removed.
RStripDots_one(s) ==
    IF s # "" /\ Ch(s, Len(s)) = "." THEN SubSeq(s, 1, Len(s) - 1) ELSE s

\* str.rstrip("."): every trailing period is removed.
RStripDots(s) == SubSeq(s, 1, SkipDotsBack(s, Len(s)))

\* The function f as an explicit table (f @@ <<>> = f): its values are
\* computed once, not at every application.
Table(f) == f @@ <<>>

\* The elements of the finite set S of integers in increasing order.
SortedSeq(S) ==
    LET rank == Table([i \in S |-> Cardinality({j \in S : j < i})])
    IN  Table([p \in 1..Cardinality(S) |-> CHOOSE i \in S : rank[i] = p - 1])

\* " ".join(parts)
RECURSIVE Join(_)
Join(parts) ==
    IF parts = <<>> THEN ""
    ELSE IF Len(parts) = 1 THEN parts[1]
    ELSE LET mid == Len(parts) \div 2
         IN  Join(SubSeq(parts, 1, mid)) \o " "
                \o Join(SubSeq(parts, mid + 1, Len(parts)))

\* Faulty variant of IsBlank: the strip is forgotten.
IsBlank_nostrip(text) == text = ""

\* "if not text or not text.strip()"
IsBlank(text) == text = "" \/ Strip(text) = ""

(***************************************************************************)
(* Module constants of summarization.py                                    *)
(***************************************************************************)

STOP_WORDS == {
    "a", "about", "above", "actually", "after", "again", "against", "ain",
    "all", "also", "am", "an", "and", "are", "aren", "as", "at", "be",
    "because", "been", "before", "being", "below", "between", "both", "but",
    "by", "can", "could", "couldn", "d", "did", "didn", "do", "does",
    "doesn", "doing", "don", "down", "during", "each", "few", "for", "from",
    "further", "get", "go", "going", "got", "had", "hadn", "has", "hasn",
    "have", "haven", "having", "he", "her", "here", "hers", "herself", "him",
    "himself", "his", "how", "i", "if", "in", "is", "isn", "it", "its",
    "itself", "just", "know", "let", "like", "ll", "m", "ma", "make", "may",
    "me", "might", "mightn", "more", "most", "mustn", "my", "myself",
    "needn", "no", "nor", "not", "now", "o", "of", "off", "okay", "on",
    "once", "only", "or", "other", "our", "ours", "ourselves", "out", "over",
    "own", "re", "really", "right", "s", "same", "shall", "shan", "she",
    "should", "shouldn", "so", "some", "such", "t", "than", "that", "the",
    "their", "theirs", "them", "themselves", "then", "there", "these",
    "they", "thing", "things", "think", "this", "those", "through", "to",
    "too", "uh", "um", "under", "until", "up", "ve", "very", "was", "wasn",
    "we", "well", "were", "weren", "what", "when", "where", "which", "while",
    "who", "whom", "why", "will", "with", "won", "would", "wouldn", "y",
    "yeah", "you", "your", "yours", "yourself", "yourselves"}

\* re's [\s-]? between two halves of a keyword: nothing, a hyphen or one
\* whitespace character.
OptSep(a, b) == {a \o b, a \o "-" \o b} \cup {a \o w \o b : w \in WHITESPACE}

\* The thirteen ACTION_PATTERNS, in list order.  Every pattern has the shape
\*   \b keyword \b  [:\s]*  (.*?)(?:\.|$)
\* with the [:\s]* part present only where skip is TRUE; lits are the strings
\* the keyword part can match (lower case: the search is IGNORECASE).
ACTION_PATTERNS == <<
    [lits |-> {"action item", "action items"}, skip |-> TRUE],
    [lits |-> {"need to", "needs to"}, skip |-> FALSE],
    [lits |-> {"should"}, skip |-> FALSE],
    [lits |-> {"will"}, skip |-> FALSE],
    [lits |-> {"must"}, skip |-> FALSE],
    [lits |-> {"todo"}, skip |-> TRUE],
    [lits |-> OptSep("to", "do"), skip |-> TRUE],
    [lits |-> OptSep("follow", "up"), skip |-> FALSE],
    [lits |-> {"deadline"}, skip |-> FALSE],
    [lits |-> {"by monday", "by tuesday", "by wednesday", "by thursday",
               "by friday", "by saturday", "by sunday", "by tomorrow",
               "by next week", "by end of"}, skip |-> FALSE],
    [lits |-> {"assign", "assigned"}, skip |-> FALSE],
    [lits |-> {"schedule"}, skip |-> FALSE],
    [lits |-> {"make sure"}, skip |-> FALSE] >>

\* "len(s.strip()) > 10" in _split_sentences
MIN_SENTENCE_LEN == 10

\* "len(point) > 15" in extract_key_points, "len(item) > 15" in
\* extract_action_items
MIN_ITEM_LEN == 15

\* "if len(sentences) > 50" in summarize_transcript
LONG_TRANSCRIPT == 50

\* "segment_size = 20" in _map_reduce_summarize
SEGMENT_SIZE == 20

\* "num_sentences=3" of the map step
SEGMENT_SUMMARY_LEN == 3

\* "max_points=7"
MAX_POINTS == 7

(***************************************************************************)
(* _split_sentences                                                        *)
(***************************************************************************)

\* A split of re.split(r"(?<=[.!?])\s+", t) begins at i: a whitespace
\* character that follows a terminator.
IsSplitStart(t, i) ==
    /\ i >= 2
    /\ i <= Len(t)
    /\ Ch(t, i) \in WHITESPACE
    /\ Ch(t, i - 1) \in TERMINATORS

\* The pieces of t between the splits that begin at the indices in splits.
\* The \s+ of a split takes the whole whitespace run.
Fragments(t, splits) ==
    Table([p \in 1..(Len(splits) + 1) |->
              SubSeq(t,
                     IF p = 1 THEN 1 ELSE SkipSpaces(t, splits[p - 1]),
                     IF p = Len(splits) + 1 THEN Len(t) ELSE splits[p] - 1)])

\* re.split(r"(?<=[.!?])\s+", t) on the stripped text t.
ReSplit(t) == Fragments(t, SortedSeq({i \in 2..Len(t) : IsSplitStart(t, i)}))

\* Faulty variant of IsLongEnough: a fragment of exactly 10 characters is
\* kept.
IsLongEnough_ge(s) == Len(s) >= MIN_SENTENCE_LEN

\* "len(s.strip()) > 10"
IsLongEnough(s) == Len(s) > MIN_SENTENCE_LEN

\* [s.strip() for s in fragments if len(s.strip()) > 10]
KeepLong(frags) == SelectSeq([p \in 1..Len(frags) |-> Strip(frags[p])], IsLongEnough)

_split_sentences(text) == KeepLong(ReSplit(Strip(text)))

(***************************************************************************)
(* _score_sentences                                                        *)
(***************************************************************************)

\* Index of the last character of the run of [a-z] that begins at i.
RECURSIVE LetterRunEnd(_, _)
LetterRunEnd(s, i) ==
    IF i < Len(s) /\ Ch(s, i + 1) \in LowerSet THEN LetterRunEnd(s, i + 1) ELSE i

\* A match of \b[a-z]+\b begins at index i of s: a maximal run of
\* lower-case letters with no word character directly before or after it.
IsWordStart(s, i) ==
    /\ Ch(s, i) \in LowerSet
    /\ (i = 1 \/ ~IsWordChar(Ch(s, i - 1)))
    /\ (LetterRunEnd(s, i) = Len(s) \/ ~IsWordChar(Ch(s, LetterRunEnd(s, i) + 1)))

\* The words of s that begin at the indices in starts.
WordsAt(s, starts) ==
    Table([p \in 1..Len(starts) |-> SubSeq(s, starts[p], LetterRunEnd(s, starts[p]))])

\* re.findall(r"\b[a-z]+\b", s)
FindAllWords(s) == WordsAt(s, SortedSeq({i \in 1..Len(s) : IsWordStart(s, i)}))

\* re.findall(r"\b[a-z]+\b", sentence.lower())
FindWords(sentence) == FindAllWords(Lower(sentence))

\* "w not in STOP_WORDS and len(w) > 2"
IsRetained(w) == w \notin STOP_WORDS /\ Len(w) > 2

RECURSIVE SumSeq(_)
SumSeq(xs) == IF xs = <<>> THEN 0 ELSE xs[1] + SumSeq(Tail(xs))

SetMax(S) == CHOOSE x \in S : \A y \in S : y <= x

\* Rationals <<numerator, denominator>>, denominator > 0.
RatLess(a, b) == a[1] * b[2] < b[1] * a[2]

RatEq(a, b) == a[1] * b[2] = b[1] * a[2]

\* The multiplier of the positional boost in tenths: 1.2 for the first
\* sentence, 1.1 for the last, 1.0 otherwise.
Boost(i, count) == IF i = 0 THEN 12 ELSE IF i = count - 1 THEN 11 ELSE 10

\* list.extend over a list of lists
RECURSIVE Flatten(_)
Flatten(lists) ==
    IF lists = <<>> THEN <<>>
    ELSE IF Len(lists) = 1 THEN lists[1]
    ELSE LET mid == Len(lists) \div 2
         IN  Flatten(SubSeq(lists, 1, mid)) \o Flatten(SubSeq(lists, mid + 1, Len(lists)))

\* Counter(all_words)
Counter(all_words) ==
    Table([w \in {all_words[m] : m \in 1..Len(all_words)} |->
              Cardinality({m \in 1..Len(all_words) : all_words[m] = w})])

\* sum(word_freq.get(w, 0) for w in words), before the division of the
\* counts by max_freq.
SumFreq(word_freq, words) ==
    SumSeq([m \in 1..Len(words) |->
               IF words[m] \in DOMAIN word_freq THEN word_freq[words[m]] ELSE 0])

\* Faulty variant of Scored: the sum is divided by the number of retained
\* words.
Scored_retained(word_freq, max_freq, k, count, words, sentence) ==
    IF SelectSeq(words, IsRetained) = <<>>
    THEN [score |-> <<0, 1>>, index |-> k - 1, text |-> sentence]
    ELSE [score |-> <<SumFreq(word_freq, words) * Boost(k - 1, count),
                      max_freq * Len(SelectSeq(words, IsRetained)) * 10>>,
          index |-> k - 1,
          text |-> sentence]

\* The (score, index, sentence) of sentence k (index k - 1) of count
\* sentences, its words being words.
Scored(word_freq, max_freq, k, count, words, sentence) ==
    IF words = <<>>
    THEN [score |-> <<0, 1>>, index |-> k - 1, text |-> sentence]
    ELSE [score |-> <<SumFreq(word_freq, words) * Boost(k - 1, count),
                      max_freq * Len(words) * 10>>,
          index |-> k - 1,
          text |-> sentence]

\* The scoring loop of _score_sentences, given each sentence's words, the
\* word counts and the highest count.
ScoreWith(sentences, words, word_freq, max_freq) ==
    Table([k \in 1..Len(sentences) |->
              Scored(word_freq, max_freq, k, Len(sentences), words[k], sentences[k])])

\* _score_sentences from "word_freq = Counter(all_words)" on.
ScoreFreq(sentences, words, word_freq) ==
    IF DOMAIN word_freq = {}
    THEN Table([k \in 1..Len(sentences) |->
                   [score |-> <<0, 1>>, index |-> k - 1, text |-> sentences[k]]])
    ELSE ScoreWith(sentences, words, word_freq,
                   SetMax({word_freq[w] : w \in DOMAIN word_freq}))

\* all_words: the retained words of all sentences.
AllWords(words) ==
    Flatten(Table([k \in 1..Len(words) |-> SelectSeq(words[k], IsRetained)]))

\* _score_sentences, given each sentence's words.
ScoreWords(sentences, words) ==
    ScoreFreq(sentences, words, Counter(AllWords(words)))

\* _score_sentences(sentences): one (score, index, sentence) per sentence,
\* index from 0.
_score_sentences(sentences) ==
    ScoreWords(sentences, Table([k \in 1..Len(sentences) |-> FindWords(sentences[k])]))

(***************************************************************************)
(* The statements of _score_sentences that can raise                       *)
(***************************************************************************)

\* "max(word_freq.values())" raises ValueError on an empty Counter.
MaxRaises(word_freq) == DOMAIN word_freq = {}

\* "if not word_freq: return [...]" comes first: max is reached only with a
\* non-empty Counter.
ReachesMax(word_freq) == DOMAIN word_freq # {}

\* "/ len(words)" raises ZeroDivisionError for a sentence without words.
DivisionRaises(words) == Len(words) = 0

\* Faulty variant of ReachesDivision: the "if not words" guard is missing.
ReachesDivision_unguarded(words) == TRUE

\* "if not words: ...; continue" comes first: the division is reached only
\* for a sentence with words.
ReachesDivision(words) == words # <<>>

\* _score_sentences raises, given each sentence's words and the Counter.
ScoreRaisesWith(words, word_freq) ==
    \/ ReachesMax(word_freq) /\ MaxRaises(word_freq)
    \/ /\ ReachesMax(word_freq)
       /\ \E k \in 1..Len(words) :
              ReachesDivision(words[k]) /\ DivisionRaises(words[k])

\* _score_sentences raises, given each sentence's words.
ScoreRaisesWords(words) == ScoreRaisesWith(words, Counter(AllWords(words)))

\* _score_sentences(sentences) raises an exception.
ScoreRaises(sentences) ==
    ScoreRaisesWords(Table([k \in 1..Len(sentences) |-> FindWords(sentences[k])]))

(***************************************************************************)
(* extract_summary                                                         *)
(***************************************************************************)

\* Faulty variant of ScoreRank: of two entries of equal score the later one
\* comes first.
ScoreRank_later(scored, i) ==
    Cardinality({j \in 1..Len(scored) :
        \/ RatLess(scored[i].score, scored[j].score)
        \/ RatEq(scored[i].score, scored[j].score) /\ j > i})

\* Number of entries that sorted(scored, key=lambda x: x[0], reverse=True)
\* puts before entry i: those of higher score and, the sort being stable,
\* those of equal score that come before it.
ScoreRank(scored, i) ==
    Cardinality({j \in 1..Len(scored) :
        \/ RatLess(scored[i].score, scored[j].score)
        \/ RatEq(scored[i].score, scored[j].score) /\ j < i})

\* The sequence xs reordered so that entry i comes at place rank[i] + 1.
Permute(xs, rank) ==
    Table([p \in 1..Len(xs) |-> xs[CHOOSE i \in 1..Len(xs) : rank[i] = p - 1]])

\* sorted(scored, key=lambda x: x[0], reverse=True)
SortByScoreDesc(scored) ==
    Permute(scored, Table([i \in 1..Len(scored) |-> ScoreRank(scored, i)]))

\* Faulty variant of SliceTo: one entry too many.
SliceTo_more(xs, n) ==
    SubSeq(xs, 1, IF n + 1 < Len(xs) THEN n + 1 ELSE Len(xs))

\* xs[:n], Python slicing: a negative n counts from the end.
SliceTo(xs, n) ==
    SubSeq(xs, 1, IF n >= 0 THEN (IF n < Len(xs) THEN n ELSE Len(xs))
                  ELSE (IF Len(xs) + n > 0 THEN Len(xs) + n ELSE 0))

\* Faulty variant of SortByIndex: the top sentences stay in score order.
SortByIndex_unsorted(top) == top

\* sorted(top, key=lambda x: x[1]): ascending by index.
SortByIndex(top) ==
    Permute(top, Table([i \in 1..Len(top) |->
                     Cardinality({j \in 1..Len(top) : top[j].index < top[i].index})]))

\* "s[2] for s in top_in_order"
Texts(top_in_order) ==
    Table([p \in 1..Len(top_in_order) |-> top_in_order[p].text])

\* The selection shared by extract_summary and extract_key_points: the
\* top n by score, back in original order.
TopInOrder(sentences, n) ==
    SortByIndex(SliceTo(SortByScoreDesc(_score_sentences(sentences)), n))

\* Faulty variant of SummaryOf: a short text is rebuilt from its sentences.
SummaryOf_rejoin(text, sentences, num_sentences) ==
    IF Len(sentences) <= num_sentences
    THEN Join(sentences)
    ELSE Join(Texts(TopInOrder(sentences, num_sentences)))

\* extract_summary after the split.
SummaryOf(text, sentences, num_sentences) ==
    IF Len(sentences) <= num_sentences
    THEN Strip(text)
    ELSE Join(Texts(TopInOrder(sentences, num_sentences)))

extract_summary(text, num_sentences) ==
    IF IsBlank(text) THEN ""
    ELSE SummaryOf(text, _split_sentences(text), num_sentences)

(***************************************************************************)
(* extract_key_points                                                      *)
(***************************************************************************)

\* "if point and len(point) > 15"
IsPoint(point) == point # "" /\ Len(point) > MIN_ITEM_LEN

\* "point = sentence.rstrip('.'); if point and len(point) > 15: append"
CleanPoints(texts) ==
    SelectSeq([p \in 1..Len(texts) |-> RStripDots(texts[p])], IsPoint)

\* Faulty variant of PointsOf: every sentence is a candidate point.
PointsOf_all(sentences, max_points) ==
    IF sentences = <<>> THEN <<>>
    ELSE CleanPoints(Texts(TopInOrder(sentences, Len(sentences))))

\* extract_key_points after the split.
PointsOf(sentences, max_points) ==
    IF sentences = <<>> THEN <<>>
    ELSE CleanPoints(Texts(TopInOrder(sentences, max_points)))

extract_key_points(text, max_points) ==
    IF IsBlank(text) THEN <<>>
    ELSE PointsOf(_split_sentences(text), max_points)

(***************************************************************************)
(* extract_action_items                                                    *)
(***************************************************************************)

\* \b at index i of s: exactly one of the characters before and at i is a
\* word character.
IsBoundary(s, i) ==
    LET before == i >= 2 /\ i - 1 <= Len(s) /\ IsWordChar(Ch(s, i - 1))
        after == i >= 1 /\ i <= Len(s) /\ IsWordChar(Ch(s, i))
    IN  before # after

\* (.*?)(?:\.|$) matches from index q: a period or the end of the string
\* is reached without crossing a newline ($ also matches before a final
\* newline).
TailMatches(s, q) ==
    \E r \in q..(Len(s) + 1) :
        /\ \A j \in q..(r - 1) : Ch(s, j) # "\n"
        /\ \/ r = Len(s) + 1
           \/ Ch(s, r) = "."
           \/ r = Len(s) /\ Ch(s, r) = "\n"

\* Index of the first character at or after i that [:\s] does not match.
RECURSIVE SkipColonSpaces(_, _)
SkipColonSpaces(s, i) ==
    IF i > Len(s) \/ (Ch(s, i) # ":" /\ Ch(s, i) \notin WHITESPACE)
    THEN i ELSE SkipColonSpaces(s, i + 1)

\* The rest of pattern p matches s after a keyword that ended before index e.
RestMatches(p, s, e) ==
    IF p.skip
    THEN \E q \in e..SkipColonSpaces(s, e) : TailMatches(s, q)
    ELSE TailMatches(s, e)

\* The indices of s where \b holds.
Boundaries(s) == {i \in 1..(Len(s) + 1) : IsBoundary(s, i)}

\* re.search(pattern, sentence, re.IGNORECASE) finds a match; s is the
\* sentence in lower case and bounds are its word boundaries.
Search(p, s, bounds) ==
    \E i \in bounds :
        \E lit \in p.lits :
            /\ i + Len(lit) - 1 <= Len(s)
            /\ SubSeq(s, i, i + Len(lit) - 1) = lit
            /\ (i + Len(lit)) \in bounds
            /\ RestMatches(p, s, i + Len(lit))

\* The inner loop "for pattern in ACTION_PATTERNS" for one sentence (s, in
\* lower case, with its word boundaries), from pattern k on, tried being
\* the patterns searched before: the patterns re.search is called with,
\* and whether the last one matched.  The loop breaks at the first pattern
\* that matches.
RECURSIVE TryPatterns(_, _, _, _)
TryPatterns(s, bounds, k, tried) ==
    IF k > Len(ACTION_PATTERNS) THEN [tried |-> tried, matched |-> FALSE]
    ELSE IF Search(ACTION_PATTERNS[k], s, bounds)
    THEN [tried |-> Append(tried, k), matched |-> TRUE]
    ELSE TryPatterns(s, bounds, k + 1, Append(tried, k))

\* Faulty variant of TrySentence: no break, every pattern is searched.
TrySentence_nobreak(s) ==
    [tried |-> [k \in 1..Len(ACTION_PATTERNS) |-> k],
     matched |-> \E k \in 1..Len(ACTION_PATTERNS) :
                    Search(ACTION_PATTERNS[k], s, Boundaries(s))]

\* The inner loop for one sentence.
TrySentence(s) == TryPatterns(s, Boundaries(s), 1, <<>>)

\* Faulty variant of AddItem: an item of exactly 15 characters is kept.
AddItem_atleast(acc, item, item_lower) ==
    IF item_lower \notin acc.seen /\ Len(item) >= MIN_ITEM_LEN
    THEN [acc EXCEPT !.action_items = Append(@, item),
                     !.seen = @ \cup {item_lower}]
    ELSE acc

\* Faulty variant of AddItem: seen is not consulted.
AddItem_nodedup(acc, item, item_lower) ==
    IF Len(item) > MIN_ITEM_LEN
    THEN [acc EXCEPT !.action_items = Append(@, item),
                     !.seen = @ \cup {item_lower}]
    ELSE acc

\* The body under "if re.search(...)": item is sentence.strip().rstrip(".").
AddItem(acc, item, item_lower) ==
    IF item_lower \notin acc.seen /\ Len(item) > MIN_ITEM_LEN
    THEN [acc EXCEPT !.action_items = Append(@, item),
                     !.seen = @ \cup {item_lower}]
    ELSE acc

\* Faulty variant of AfterTry: the trailing periods stay on the item.
AfterTry_keepdots(acc, sentence, try) ==
    IF try.matched
    THEN AddItem([acc EXCEPT !.tested = Append(@, try.tried)],
                 Strip(sentence), Lower(Strip(sentence)))
    ELSE [acc EXCEPT !.tested = Append(@, try.tried)]

\* One pass of the outer loop, the inner loop having ended as try.  acc is
\* [action_items, seen, tested]; tested collects, per sentence, the
\* patterns searched.
AfterTry(acc, sentence, try) ==
    IF try.matched
    THEN AddItem([acc EXCEPT !.tested = Append(@, try.tried)],
                 RStripDots(Strip(sentence)), Lower(RStripDots(Strip(sentence))))
    ELSE [acc EXCEPT !.tested = Append(@, try.tried)]

\* One pass of the outer loop "for sentence in sentences".
ScanSentence(acc, sentence) ==
    AfterTry(acc, sentence, TrySentence(Lower(sentence)))

\* The outer loop over sentences lo..hi, entered with the local variables
\* acc.
RECURSIVE ScanSentences(_, _, _, _)
ScanSentences(acc, sentences, lo, hi) ==
    IF lo > hi THEN acc
    ELSE IF lo = hi THEN ScanSentence(acc, sentences[lo])
    ELSE LET mid == (lo + hi) \div 2
             half == ScanSentences(acc, sentences, lo, mid)
         IN  \* sentences lo..mid are done (one entry of tested each) before
             \* mid+1..hi begin
             IF Len(half.tested) = mid
             THEN ScanSentences(half, sentences, mid + 1, hi)
             ELSE half

\* The loop of extract_action_items over all sentences.
ScanAll(sentences) ==
    ScanSentences([action_items |-> <<>>, seen |-> {}, tested |-> <<>>],
                  sentences, 1, Len(sentences))

\* extract_action_items with its local variables: action_items, seen and
\* the record of the searches made.
ActionScan(text) ==
    IF IsBlank(text)
    THEN [action_items |-> <<>>, seen |-> {}, tested |-> <<>>]
    ELSE ScanAll(_split_sentences(text))

extract_action_items(text) == ActionScan(text).action_items

(***************************************************************************)
(* summarize_transcript and _map_reduce_summarize                          *)
(***************************************************************************)

\* Faulty variant of IsLongTranscript: the boundary is off by one.
IsLongTranscript_ge(sentences) == Len(sentences) >= LONG_TRANSCRIPT

\* "if len(sentences) > 50"
IsLongTranscript(sentences) == Len(sentences) > LONG_TRANSCRIPT

\* Faulty variant of SegmentsFrom: each segment also takes the first
\* sentence of the next one.
RECURSIVE SegmentsFrom_overlap(_, _)
SegmentsFrom_overlap(sentences, i) ==
    IF i >= Len(sentences) THEN <<>>
    ELSE LET last == IF i + SEGMENT_SIZE + 1 < Len(sentences)
                     THEN i + SEGMENT_SIZE + 1 ELSE Len(sentences)
         IN  <<Join(SubSeq(sentences, i + 1, last))>>
                \o SegmentsFrom_overlap(sentences, i + SEGMENT_SIZE)

\* "for i in range(0, len(sentences), segment_size):
\*      segments.append(' '.join(sentences[i : i + segment_size]))"
\* from 0-based index i on.
RECURSIVE SegmentsFrom(_, _)
SegmentsFrom(sentences, i) ==
    IF i >= Len(sentences) THEN <<>>
    ELSE LET last == IF i + SEGMENT_SIZE < Len(sentences)
                     THEN i + SEGMENT_SIZE ELSE Len(sentences)
         IN  <<Join(SubSeq(sentences, i + 1, last))>>
                \o SegmentsFrom(sentences, i + SEGMENT_SIZE)

\* "for segment in segments: extract_summary(segment, num_sentences=3)"
SegmentSummaries(segments) ==
    Table([k \in 1..Len(segments) |->
              extract_summary(segments[k], SEGMENT_SUMMARY_LEN)])

\* Faulty variant of Reduce: the action items are taken from the combined
\* text and the key points from the full text.
Reduce_swapped(text, segments, combined, num_sentences) ==
    [result |-> [summary |-> extract_summary(combined, num_sentences),
                 key_points |-> extract_key_points(text, MAX_POINTS),
                 action_items |-> extract_action_items(combined)],
     calls |-> <<"_split_sentences", "_map_reduce_summarize">>,
     path |-> "map_reduce",
     segments |-> segments,
     combined |-> combined,
     tested |-> ActionScan(text).tested]

\* The reduce step and the return of _map_reduce_summarize.
Reduce(text, segments, combined, num_sentences) ==
    [result |-> [summary |-> extract_summary(combined, num_sentences),
                 key_points |-> extract_key_points(combined, MAX_POINTS),
                 action_items |-> extract_action_items(text)],
     calls |-> <<"_split_sentences", "_map_reduce_summarize">>,
     path |-> "map_reduce",
     segments |-> segments,
     combined |-> combined,
     tested |-> ActionScan(text).tested]

\* The map step of _map_reduce_summarize.
MapStep(text, segments, num_sentences) ==
    Reduce(text, segments, Join(SegmentSummaries(segments)), num_sentences)

\* _map_reduce_summarize: the dict it returns (result), with the branch
\* taken (path), the functions summarize_transcript called (calls) and the
\* local variables segments and combined.
_map_reduce_summarize(text, sentences, num_sentences) ==
    MapStep(text, SegmentsFrom(sentences, 0), num_sentences)

\* The direct pipeline of summarize_transcript.
DirectPipeline(text, num_sentences) ==
    [result |-> [summary |-> extract_summary(text, num_sentences),
                 key_points |-> extract_key_points(text, MAX_POINTS),
                 action_items |-> extract_action_items(text)],
     calls |-> <<"_split_sentences", "extract_summary",
                 "extract_key_points", "extract_action_items">>,
     path |-> "direct",
     segments |-> <<>>,
     combined |-> "",
     tested |-> ActionScan(text).tested]

\* summarize_transcript after the split.
Dispatch(text, sentences, num_sentences) ==
    IF IsLongTranscript(sentences)
    THEN _map_reduce_summarize(text, sentences, num_sentences)
    ELSE DirectPipeline(text, num_sentences)

\* The early return of summarize_transcript.
EmptyCall ==
    [result |-> [summary |-> "", key_points |-> <<>>, action_items |-> <<>>],
     calls |-> <<>>, path |-> "empty", segments |-> <<>>, combined |-> "",
     tested |-> <<>>]

\* One call of summarize_transcript: the dict it returns (result), the
\* functions it called in order (calls), the branch taken (path), on the
\* map-reduce path the segments and the combined text, and the patterns
\* extract_action_items searched for each sentence (tested).
SummarizeCall(text, num_sentences) ==
    IF IsBlank(text) THEN EmptyCall
    ELSE Dispatch(text, _split_sentences(text), num_sentences)

summarize_transcript(text, num_sentences) == SummarizeCall(text, num_sentences).result

(***************************************************************************)
(* Exceptions: which calls raise                                           *)
(***************************************************************************)

\* extract_summary after the split raises: it scores only when more than
\* num_sentences sentences survive.
SummaryRaisesOn(sentences, num_sentences) ==
    Len(sentences) > num_sentences /\ ScoreRaises(sentences)

\* extract_summary(text, num_sentences) raises.
ExtractSummaryRaises(text, num_sentences) ==
    ~IsBlank(text) /\ SummaryRaisesOn(_split_sentences(text), num_sentences)

\* extract_key_points after the split raises.
PointsRaiseOn(sentences) == sentences # <<>> /\ ScoreRaises(sentences)

\* extract_key_points(text) raises.
ExtractKeyPointsRaises(text) ==
    ~IsBlank(text) /\ PointsRaiseOn(_split_sentences(text))

\* The map and reduce steps raise, given the segments and the combined text.
ReduceRaises(segments, combined, num_sentences) ==
    \/ \E k \in 1..Len(segments) :
           ExtractSummaryRaises(segments[k], SEGMENT_SUMMARY_LEN)
    \/ ExtractSummaryRaises(combined, num_sentences)
    \/ ExtractKeyPointsRaises(combined)

\* _map_reduce_summarize raises, given the segments.
MapReduceRaisesOn(segments, num_sentences) ==
    ReduceRaises(segments, Join(SegmentSummaries(segments)), num_sentences)

\* summarize_transcript after the split raises.
DispatchRaises(text, sentences, num_sentences) ==
    IF IsLongTranscript(sentences)
    THEN MapReduceRaisesOn(SegmentsFrom(sentences, 0), num_sentences)
    ELSE SummaryRaisesOn(sentences, num_sentences) \/ PointsRaiseOn(sentences)

\* summarize_transcript(text, num_sentences) raises an exception instead of
\* returning.
SummarizeRaises(text, num_sentences) ==
    ~IsBlank(text) /\ DispatchRaises(text, _split_sentences(text), num_sentences)

(***************************************************************************)
(* The transcripts and counts the model calls summarize_transcript with    *)
(***************************************************************************)

\* Pieces a transcript is assembled from: whitespace, a fragment the
\* splitter discards, plain and action sentences, a sentence in another
\* letter case, a sentence matching two patterns, a matching sentence too
\* short to be an item, a sentence ending in two periods, and an
\* unterminated sentence holding a newline.
PIECES == {
    " ",
    "OK. ",
    "We need to finish the report by Friday. ",
    "The weather is nice today. ",
    "WE NEED TO FINISH THE REPORT BY FRIDAY. ",
    "You should and must reply. ",
    "We must go on. ",
    "we need to finish the report by friday.. ",
    "Plans will\nchange later" }

\* Five sentences of a long transcript.
UNIT ==
    "Alpha team met us. " \o "Beta will ship soon. " \o "Gamma is late. "
        \o "Delta must review alpha. " \o "Epsilon won! "

\* Twenty-five sentences: two blocks are exactly LONG_TRANSCRIPT sentences.
BLOCK == UNIT \o UNIT \o UNIT \o UNIT \o UNIT

\* The pieces appended after blocks: a discarded fragment, one more
\* sentence, an unterminated last sentence.
TAIL_PIECES == {"OK. ", "The weather is nice today. ", "Plans will\nchange later"}

\* A transcript is blocks (while it has fewer than LONG_TRANSCRIPT
\* sentences), then at most MaxPieces pieces.
MaxPieces == 2

\* num_sentences ranges over -MaxNegCount..MaxCount, a count MidCount
\* that the combined segment summaries of a long transcript do not exceed,
\* and one count that no transcript exceeds.
MaxCount == 4

MaxNegCount == 1

MidCount == 10

COUNTS ==
    ((0 - MaxNegCount)..MaxCount) \cup {MidCount, LONG_TRANSCRIPT + MaxPieces}

(***************************************************************************)
(* State machine                                                           *)
(***************************************************************************)

VARIABLES
    text,           \* the transcript
    nblocks,        \* blocks appended to text
    npieces,        \* pieces appended to text
    pc,             \* "input" while the transcript is assembled, "done" after the call
    num_sentences,  \* the argument of the call
    call,           \* SummarizeCall of the call made
    frames,         \* per thread, the frame of its call of summarize_transcript
    history,        \* the calls that returned: arguments and result, in order
    globals,        \* the module-level names STOP_WORDS and ACTION_PATTERNS
    rows,           \* the committed rows of table sessions, by id
    files,          \* the audio files in upload_dir
    upload,         \* the frame of the create_session request in progress
    deleter,        \* the frame of the delete_session request in progress
    replies,        \* the requests that ended, with their status codes
    requests,       \* number of requests begun
    resum           \* the frame of the resummarize_session request in progress

\* The variables of one call on an assembled transcript.
summVars == <<text, nblocks, npieces, pc, num_sentences, call>>

\* The variables of concurrent calls.
callVars == <<frames, history, globals>>

\* The variables of the session endpoints.
sessVars == <<rows, files, upload, deleter, replies, requests, resum>>

vars ==
    <<text, nblocks, npieces, pc, num_sentences, call, frames, history, globals,
      rows, files, upload, deleter, replies, requests, resum>>

\* Threads that call summarize_transcript (the sync endpoints run in a
\* thread pool).
MaxThreads == 2

Threads == 1..MaxThreads

\* Calls made in one behaviour.
MaxCalls == 3

\* A thread that is not in a call.
IdleFrame == [pc |-> "idle", text |-> "", num_sentences |-> 0]

\* The module-level objects the functions read.
MODULE_GLOBALS == [STOP_WORDS |-> STOP_WORDS, ACTION_PATTERNS |-> ACTION_PATTERNS]

\* A nullable column: None is <<>>, a value x is <<x>>.
None == <<>>

Some(x) == <<x>>

\* No create_session request is in progress.
NoUpload ==
    [pc |-> "idle", req |-> 0, id |-> 0, filename |-> "", session |-> None,
     text |-> "", exc |-> ""]

\* No delete_session request is in progress.
NoDelete == [pc |-> "idle", req |-> 0, id |-> 0, audio_filename |-> None]

\* No resummarize_session request is in progress.
NoResum == [pc |-> "idle", req |-> 0, id |-> 0, sentence_count |-> 0, transcript |-> ""]

Init ==
    /\ text = ""
    /\ nblocks = 0
    /\ npieces = 0
    /\ pc = "input"
    /\ num_sentences = 5
    /\ call = EmptyCall
    /\ frames = [p \in Threads |-> IdleFrame]
    /\ history = <<>>
    /\ globals = MODULE_GLOBALS
    /\ rows = <<>>
    /\ files = {}
    /\ upload = NoUpload
    /\ deleter = NoDelete
    /\ replies = {}
    /\ requests = 0
    /\ resum = NoResum

AppendBlock ==
    /\ pc = "input"
    /\ npieces = 0
    /\ Len(_split_sentences(text)) < LONG_TRANSCRIPT
    /\ text' = text \o BLOCK
    /\ nblocks' = nblocks + 1
    /\ UNCHANGED <<npieces, pc, num_sentences, call>>
    /\ UNCHANGED <<callVars, sessVars>>

AppendPiece ==
    /\ pc = "input"
    /\ npieces < MaxPieces
    /\ \E piece \in (IF nblocks = 0 THEN PIECES ELSE TAIL_PIECES) :
           text' = text \o piece
    /\ npieces' = npieces + 1
    /\ UNCHANGED <<nblocks, pc, num_sentences, call>>
    /\ UNCHANGED <<callVars, sessVars>>

\* The caller invokes summarize_transcript(text, n).
Summarize ==
    /\ pc = "input"
    /\ \E n \in COUNTS :
           /\ num_sentences' = n
           /\ call' = SummarizeCall(text, n)
    /\ pc' = "done"
    /\ UNCHANGED <<text, nblocks, npieces>>
    /\ UNCHANGED <<callVars, sessVars>>

Next == AppendBlock \/ AppendPiece \/ Summarize

Spec == Init /\ [][Next]_vars

(***************************************************************************)
(* Edge-case transcripts                                                   *)
(***************************************************************************)

\* Eight sentences, four times the same two: equal scores at different
\* indices, and one sentence more than extract_key_points selects.
EIGHT ==
    "We must go homes. " \o "We will wait for it... "
        \o "We must go homes. " \o "We will wait for it... "
        \o "We must go homes. " \o "We will wait for it... "
        \o "We must go homes. " \o "We will wait for it... "

\* Pieces of the edge-case transcripts: a sentence without a word, a
\* sentence of stop words only, a fragment the splitter discards, a text
\* without sentence punctuation, matching sentences whose items are 15 and
\* 16 characters long, a sentence ending in an ellipsis, and eight
\* sentences at once.
EDGE_PIECES == {
    "12345 67890 11. ",
    "It is what it is. ",
    "OK. ",
    "Plans will change later",
    "We must go home. ",
    "We must go homes. ",
    "We will wait for it... ",
    EIGHT }

\* An edge-case transcript is at most MaxEdgePieces pieces.
MaxEdgePieces == 2

AppendEdge ==
    /\ pc = "input"
    /\ npieces < MaxEdgePieces
    /\ \E piece \in EDGE_PIECES : text' = text \o piece
    /\ npieces' = npieces + 1
    /\ UNCHANGED <<nblocks, pc, num_sentences, call>>
    /\ UNCHANGED <<callVars, sessVars>>

NextEdge == AppendEdge \/ Summarize

\* summarize_transcript called on the edge-case transcripts.
SpecEdge == Init /\ [][NextEdge]_vars

(***************************************************************************)
(* Long transcripts                                                        *)
(***************************************************************************)

\* The pieces appended to two blocks: one sentence, ten sentences, an
\* unterminated last sentence.
LONG_PIECES == {"The weather is nice today. ", UNIT \o UNIT, "Plans will\nchange later"}

\* At most MaxLongPieces pieces follow the blocks.
MaxLongPieces == 2

AppendLong ==
    /\ pc = "input"
    /\ Len(_split_sentences(text)) >= LONG_TRANSCRIPT
    /\ npieces < MaxLongPieces
    /\ \E piece \in LONG_PIECES : text' = text \o piece
    /\ npieces' = npieces + 1
    /\ UNCHANGED <<nblocks, pc, num_sentences, call>>
    /\ UNCHANGED <<callVars, sessVars>>

NextLong == AppendBlock \/ AppendLong \/ Summarize

\* summarize_transcript called on transcripts of 50 to 80 sentences.
SpecLong == Init /\ [][NextLong]_vars

(***************************************************************************)
(* Transcripts of short fragments                                          *)
(***************************************************************************)

\* Pieces around the length filter of _split_sentences: fragments of 10,
\* 11, 5 and 14 characters, whitespace alone, and words without a
\* terminator, which join the fragment that follows.
SPLIT_PIECES == {
    "Go to bed. ",
    "Go to beds. ",
    "Stop!\n\n",
    "Are you there?\t",
    "  \n ",
    "Wait for me " }

\* A transcript of fragments is at most MaxSplitPieces pieces.
MaxSplitPieces == 2

AppendFragment ==
    /\ pc = "input"
    /\ npieces < MaxSplitPieces
    /\ \E piece \in SPLIT_PIECES : text' = text \o piece
    /\ npieces' = npieces + 1
    /\ UNCHANGED <<nblocks, pc, num_sentences, call>>
    /\ UNCHANGED <<callVars, sessVars>>

NextSplit == AppendFragment \/ Summarize

\* summarize_transcript, and with it _split_sentences, called on the
\* transcripts of short fragments.
SpecSplit == Init /\ [][NextSplit]_vars

(***************************************************************************)
(* Concurrent calls of summarize_transcript                                *)
(***************************************************************************)

\* The arguments the concurrent calls are made with.
CALL_INPUTS == {
    [text |-> "We need to finish the report by Friday. The weather is nice today. ",
     num_sentences |-> 1],
    [text |-> "We need to finish the report by Friday. The weather is nice today. ",
     num_sentences |-> 2],
    [text |-> "We must go homes. We will wait for it... It is what it is. ",
     num_sentences |-> 1] }

\* Threads inside a call.
Running == {p \in Threads : frames[p].pc = "running"}

\* Faulty variant of ArgsOf: the arguments are kept in one place for all
\* threads and a call reads what another thread put there.
ArgsOf_shared(fs, p) ==
    IF \E q \in Threads : q # p /\ fs[q].pc = "running"
    THEN fs[CHOOSE q \in Threads : q # p /\ fs[q].pc = "running"]
    ELSE fs[p]

\* The parameters text and num_sentences a call reads: those of its own
\* frame.
ArgsOf(fs, p) == fs[p]

\* Faulty variant of GlobalsAfter: the call removes a stop word.
GlobalsAfter_written(g) == [g EXCEPT !.STOP_WORDS = @ \ {"will"}]

\* The module-level names after a call: no statement of the module assigns
\* to them or mutates them.
GlobalsAfter(g) == g

\* Thread p enters summarize_transcript(text, num_sentences).
Enter(p) ==
    /\ frames[p].pc = "idle"
    /\ Len(history) + Cardinality(Running) < MaxCalls
    /\ \E input \in CALL_INPUTS :
           frames' = [frames EXCEPT ![p] = [pc |-> "running",
                                            text |-> input.text,
                                            num_sentences |-> input.num_sentences]]
    /\ UNCHANGED <<history, globals>>
    /\ UNCHANGED <<summVars, sessVars>>

\* The call of thread p runs to its return statement.
Return(p) ==
    /\ frames[p].pc = "running"
    /\ history' = Append(history,
                         [text |-> frames[p].text,
                          num_sentences |-> frames[p].num_sentences,
                          result |-> summarize_transcript(ArgsOf(frames, p).text,
                                                          ArgsOf(frames, p).num_sentences)])
    /\ frames' = [frames EXCEPT ![p] = IdleFrame]
    /\ globals' = GlobalsAfter(globals)
    /\ UNCHANGED <<summVars, sessVars>>

NextCalls == \E p \in Threads : Enter(p) \/ Return(p)

\* Threads calling summarize_transcript concurrently.
SpecCalls == Init /\ [][NextCalls]_vars

(***************************************************************************)
(* The session endpoints (routers/sessions.py)                             *)
(*                                                                         *)
(* A session id is the number of the request that created it (uuid4: never *)
(* used before).  Of the columns of a session, status, audio_filename,     *)
(* error_message, transcript, summary, key_points and action_items are     *)
(* kept; title, language, word_count, audio_duration and the timestamps    *)
(* are left out.  create_session is a coroutine that does not yield after  *)
(* reading the file, so one runs at a time; the sync endpoints run in      *)
(* threads and their steps interleave with it.                             *)
(***************************************************************************)

\* SUPPORTED_FORMATS of services/audio.py
SUPPORTED_FORMATS ==
    {".mp3", ".wav", ".ogg", ".webm", ".m4a", ".flac", ".mp4", ".mpeg", ".wma"}

\* "max_file_size_mb: int = 100"
MAX_FILE_SIZE_MB == 100

\* "(1024 * 1024)"
BYTES_PER_MB == 1024 * 1024

\* str.rfind("."): index of the last period at or before i, 0 if none.
RECURSIVE RFindDot(_, _)
RFindDot(name, i) ==
    IF i < 1 THEN 0 ELSE IF Ch(name, i) = "." THEN i ELSE RFindDot(name, i - 1)

\* Path(filename).suffix for a file name without directories: from the last
\* period on, unless that period is the first or the last character.
Suffix(name) ==
    IF RFindDot(name, Len(name)) > 1 /\ RFindDot(name, Len(name)) < Len(name)
    THEN SubSeq(name, RFindDot(name, Len(name)), Len(name))
    ELSE ""

\* validate_audio_file of services/audio.py
validate_audio_file(filename) == Lower(Suffix(filename)) \in SUPPORTED_FORMATS

\* "size_mb > settings.max_file_size_mb", size being len(contents)
IsTooLarge(size) == size > MAX_FILE_SIZE_MB * BYTES_PER_MB

\* "if not file.filename or not validate_audio_file(file.filename)"
IsBadName(filename) == filename = "" \/ ~validate_audio_file(filename)

\* The file names uploaded: none, unsupported, supported, supported in
\* upper case, and a name that is only an extension.
FILENAMES == {"", "notes.txt", "talk.mp3", "TALK.WAV", ".mp3"}

\* The sizes uploaded, in bytes: empty, exactly the limit, one byte more.
SIZES == {0, MAX_FILE_SIZE_MB * BYTES_PER_MB, MAX_FILE_SIZE_MB * BYTES_PER_MB + 1}

\* The texts transcribe_audio returns.
TRANSCRIPTS ==
    {"", "We need to finish the report by Friday. The weather is nice today."}

\* Requests made in one behaviour.
MaxRequests == 3

\* The ids requests ask for.
IDS == 1..MaxRequests

\* f"{session_id}{ext}"
AudioName(id, filename) == <<id, Suffix(filename)>>

\* str.split(): the maximal runs of characters that are not whitespace.
SplitWords(t) ==
    LET starts == SortedSeq({i \in 1..Len(t) :
                                /\ Ch(t, i) \notin WHITESPACE
                                /\ (i = 1 \/ Ch(t, i - 1) \in WHITESPACE)})
    IN  Table([p \in 1..Len(starts) |->
                  SubSeq(t, starts[p],
                         IF p = Len(starts) THEN SkipSpacesBack(t, Len(t))
                         ELSE SkipSpacesBack(t, starts[p + 1] - 1))])

\* "len(result['text'].split()) if result['text'] else 0"
WordCount(t) == IF t # "" THEN Len(SplitWords(t)) ELSE 0

\* The title create_session gives a session: the first 8 words of the
\* transcript, "..." added if there are more, or "Session " and the time
\* of the request for an empty transcript.
TitleOf(t) ==
    IF t # ""
    THEN Join(SubSeq(SplitWords(t), 1,
                     IF Len(SplitWords(t)) < 8 THEN Len(SplitWords(t)) ELSE 8))
             \o (IF Len(SplitWords(t)) > 8 THEN "..." ELSE "")
    ELSE "Session 2026-01-01 09:00"

\* One character inside a JSON string, as json.dumps writes it.
JsonChar(c) ==
    IF c = "\"" THEN "\\\""
    ELSE IF c = "\\" THEN "\\\\"
    ELSE IF c = "\n" THEN "\\n"
    ELSE IF c = "\t" THEN "\\t"
    ELSE IF c = "\r" THEN "\\r"
    ELSE IF c = "\f" THEN "\\f"
    ELSE c

\* json.dumps of the characters lo..hi of the ASCII string x, without the
\* quotes.
RECURSIVE JsonEscape(_, _, _)
JsonEscape(x, lo, hi) ==
    IF lo > hi THEN ""
    ELSE IF lo = hi THEN JsonChar(Ch(x, lo))
    ELSE JsonEscape(x, lo, (lo + hi) \div 2)
             \o JsonEscape(x, (lo + hi) \div 2 + 1, hi)

\* json.dumps(items) of a list of ASCII strings: set_key_points and
\* set_action_items store this text.
RECURSIVE JsonItems(_, _)
JsonItems(items, p) ==
    IF p > Len(items) THEN ""
    ELSE (IF p > 1 THEN ", " ELSE "")
             \o "\"" \o JsonEscape(items[p], 1, Len(items[p])) \o "\""
             \o JsonItems(items, p + 1)

JsonDumps(items) == "[" \o JsonItems(items, 1) \o "]"

\* Session(id=session_id, audio_filename=audio_filename, status="uploading"),
\* the other columns at their defaults; updated_at is the request that last
\* wrote the row.
NewSession(id, filename) ==
    [status |-> "uploading",
     title |-> "Untitled Session",
     language |-> None,
     word_count |-> None,
     updated_at |-> id,
     audio_filename |-> Some(AudioName(id, filename)),
     error_message |-> None,
     transcript |-> None,
     summary |-> None,
     key_points |-> None,
     action_items |-> None]

\* A request that ended: its number, endpoint, session id, status code and
\* the session in the response body; late tells that a delete of the id had
\* returned 204 before.
Reply(req, op, id, code, session) ==
    [req |-> req, op |-> op, id |-> id, code |-> code, session |-> session,
     late |-> \E r \in replies : r.op = "delete" /\ r.id = id /\ r.code = 204]

\* Faulty variant of StoreAfterRejection: the record was added before the
\* checks.
StoreAfterRejection_added(store) ==
    [store EXCEPT !.rows = @ @@ (requests + 1 :> NewSession(requests + 1, ""))]

\* The rows and files after a request was rejected: "raise HTTPException"
\* comes before db.add and open, nothing was stored.
StoreAfterRejection(store) == store

\* create_session, "raise HTTPException(status_code=400": the file name is
\* missing or unsupported.
UploadReject400 ==
    /\ upload.pc = "idle"
    /\ requests < MaxRequests
    /\ \E filename \in FILENAMES : IsBadName(filename)
    /\ requests' = requests + 1
    /\ replies' = replies \cup {Reply(requests + 1, "create", 0, 400, None)}
    /\ rows' = StoreAfterRejection([rows |-> rows, files |-> files]).rows
    /\ files' = StoreAfterRejection([rows |-> rows, files |-> files]).files
    /\ UNCHANGED <<upload, deleter>>
    /\ UNCHANGED <<summVars, callVars, resum>>

\* create_session, "raise HTTPException(status_code=413": the file is too
\* large.
UploadReject413 ==
    /\ upload.pc = "idle"
    /\ requests < MaxRequests
    /\ \E filename \in FILENAMES, size \in SIZES :
           ~IsBadName(filename) /\ IsTooLarge(size)
    /\ requests' = requests + 1
    /\ replies' = replies \cup {Reply(requests + 1, "create", 0, 413, None)}
    /\ rows' = StoreAfterRejection([rows |-> rows, files |-> files]).rows
    /\ files' = StoreAfterRejection([rows |-> rows, files |-> files]).files
    /\ UNCHANGED <<upload, deleter>>
    /\ UNCHANGED <<summVars, callVars, resum>>

\* create_session passes both checks.
UploadAccept ==
    /\ upload.pc = "idle"
    /\ requests < MaxRequests
    /\ \E filename \in FILENAMES, size \in SIZES :
           /\ ~IsBadName(filename)
           /\ ~IsTooLarge(size)
           /\ upload' = [NoUpload EXCEPT !.pc = "create",
                                         !.req = requests + 1,
                                         !.filename = filename]
    /\ requests' = requests + 1
    /\ UNCHANGED <<rows, files, deleter, replies>>
    /\ UNCHANGED <<summVars, callVars, resum>>

\* "session = Session(...); db.add(session); db.commit()"
UploadCreate ==
    /\ upload.pc = "create"
    /\ upload' = [upload EXCEPT !.pc = "save",
                                !.id = upload.req,
                                !.session = Some(NewSession(upload.req, upload.filename))]
    /\ rows' = rows @@ (upload.req :> NewSession(upload.req, upload.filename))
    /\ UNCHANGED <<files, deleter, replies, requests>>
    /\ UNCHANGED <<summVars, callVars, resum>>

\* "with open(audio_path, 'wb') as f: f.write(contents)" and
\* get_audio_duration, which catches its own exceptions: the file is
\* written, or open or write raises.
UploadSave ==
    /\ upload.pc = "save"
    /\ \/ /\ files' = files \cup {AudioName(upload.id, upload.filename)}
          /\ upload' = [upload EXCEPT !.pc = "transcribing"]
       \/ /\ upload' = [upload EXCEPT !.pc = "except", !.exc = "OSError"]
          /\ UNCHANGED files
    /\ UNCHANGED <<rows, deleter, replies, requests>>
    /\ UNCHANGED <<summVars, callVars, resum>>

\* The session object with its status set.
WithStatus(session, status) == Some([session[1] EXCEPT !.status = status])

\* db.commit() in the try block, the session object being session: the
\* UPDATE is made and the request goes on at next, or the row is gone, the
\* UPDATE matches no row and the commit raises.
CommitThen(session, next) ==
    IF upload.id \in DOMAIN rows
    THEN /\ rows' = [rows EXCEPT ![upload.id] = session[1]]
         /\ upload' = [upload EXCEPT !.pc = next, !.session = session]
    ELSE /\ UNCHANGED rows
         /\ upload' = [upload EXCEPT !.pc = "except", !.session = session,
                                     !.exc = "StaleDataError"]

\* "session.status = 'transcribing'; db.commit()"
UploadTranscribing ==
    /\ upload.pc = "transcribing"
    /\ CommitThen(WithStatus(upload.session, "transcribing"), "transcribe")
    /\ UNCHANGED <<files, deleter, replies, requests>>
    /\ UNCHANGED <<summVars, callVars, resum>>

\* "result = transcribe_audio(audio_path); session.transcript = ..."
\* transcribe_audio returns a text or raises RuntimeError.
UploadTranscribe ==
    /\ upload.pc = "transcribe"
    /\ \/ \E t \in TRANSCRIPTS :
              upload' = [upload EXCEPT
                            !.pc = "summarizing",
                            !.text = t,
                            !.session = Some([upload.session[1] EXCEPT
                                                 !.transcript = Some(t),
                                                 !.language = Some("en"),
                                                 !.word_count = Some(WordCount(t))])]
       \/ upload' = [upload EXCEPT !.pc = "except", !.exc = "RuntimeError"]
    /\ UNCHANGED <<rows, files, deleter, replies, requests>>
    /\ UNCHANGED <<summVars, callVars, resum>>

\* "session.status = 'summarizing'; db.commit()"
UploadSummarizing ==
    /\ upload.pc = "summarizing"
    /\ CommitThen(WithStatus(upload.session, "summarizing"), "summarize")
    /\ UNCHANGED <<files, deleter, replies, requests>>
    /\ UNCHANGED <<summVars, callVars, resum>>

\* The session object with the fields of summary_result set.
WithSummary(session, summary_result) ==
    Some([session[1] EXCEPT !.summary = Some(summary_result.summary),
                            !.key_points = Some(JsonDumps(summary_result.key_points)),
                            !.action_items = Some(JsonDumps(summary_result.action_items))])

\* The session object with its title set from the transcript t.
WithTitle(session, t) == Some([session[1] EXCEPT !.title = TitleOf(t)])

\* "summary_result = summarize_transcript(result['text'])" with the default
\* num_sentences=5, and the assignments that follow.
UploadSummarize ==
    /\ upload.pc = "summarize"
    /\ upload' = [upload EXCEPT
                     !.pc = "completed",
                     !.session = WithTitle(WithSummary(upload.session,
                                                       summarize_transcript(upload.text, 5)),
                                           upload.text)]
    /\ UNCHANGED <<rows, files, deleter, replies, requests>>
    /\ UNCHANGED <<summVars, callVars, resum>>

\* "session.status = 'completed'; db.commit(); db.refresh(session)" and
\* "return _session_to_response(session)"
UploadCompleted ==
    /\ upload.pc = "completed"
    /\ IF upload.id \in DOMAIN rows
       THEN /\ rows' = [rows EXCEPT ![upload.id] = WithStatus(upload.session, "completed")[1]]
            /\ replies' = replies \cup
                   {Reply(upload.req, "create", upload.id, 201,
                          WithStatus(upload.session, "completed"))}
            /\ upload' = NoUpload
       ELSE /\ upload' = [upload EXCEPT
                             !.pc = "except",
                             !.session = WithStatus(upload.session, "completed"),
                             !.exc = "StaleDataError"]
            /\ UNCHANGED <<rows, replies>>
    /\ UNCHANGED <<files, deleter, requests>>
    /\ UNCHANGED <<summVars, callVars, resum>>

\* The session object as the except block leaves it.
WithError(session, exc) ==
    Some([session[1] EXCEPT !.status = "error", !.error_message = Some(exc)])

\* "except Exception as e: session.status = 'error'; session.error_message
\* = str(e); db.commit(); db.refresh(session)" and the return; if the row
\* is gone the commit raises and the exception leaves create_session.
UploadExcept ==
    /\ upload.pc = "except"
    /\ IF upload.id \in DOMAIN rows
       THEN /\ rows' = [rows EXCEPT ![upload.id] = WithError(upload.session, upload.exc)[1]]
            /\ replies' = replies \cup
                   {Reply(upload.req, "create", upload.id, 201,
                          WithError(upload.session, upload.exc))}
       ELSE /\ replies' = replies \cup
                   {Reply(upload.req, "create", upload.id, 500, None)}
            /\ UNCHANGED rows
    /\ upload' = NoUpload
    /\ UNCHANGED <<files, deleter, requests>>
    /\ UNCHANGED <<summVars, callVars, resum>>

\* get_session(session_id): one query.
GetSession ==
    /\ requests < MaxRequests
    /\ requests' = requests + 1
    /\ \E id \in IDS :
           replies' = replies \cup
               {IF id \in DOMAIN rows
                THEN Reply(requests + 1, "get", id, 200, Some(rows[id]))
                ELSE Reply(requests + 1, "get", id, 404, None)}
    /\ UNCHANGED <<rows, files, upload, deleter>>
    /\ UNCHANGED <<summVars, callVars, resum>>

\* delete_session(session_id): the query finds no row, 404.
DeleteNotFound ==
    /\ deleter.pc = "idle"
    /\ requests < MaxRequests
    /\ requests' = requests + 1
    /\ \E id \in IDS :
           /\ id \notin DOMAIN rows
           /\ replies' = replies \cup {Reply(requests + 1, "delete", id, 404, None)}
    /\ UNCHANGED <<rows, files, upload, deleter>>
    /\ UNCHANGED <<summVars, callVars, resum>>

\* delete_session(session_id): the query finds the row.
DeleteQuery ==
    /\ deleter.pc = "idle"
    /\ requests < MaxRequests
    /\ requests' = requests + 1
    /\ \E id \in IDS :
           /\ id \in DOMAIN rows
           /\ deleter' = [pc |-> "unlink", req |-> requests + 1, id |-> id,
                          audio_filename |-> rows[id].audio_filename]
    /\ UNCHANGED <<rows, files, upload, replies>>
    /\ UNCHANGED <<summVars, callVars, resum>>

\* "if session.audio_filename: if audio_path.exists(): audio_path.unlink()"
DeleteUnlink ==
    /\ deleter.pc = "unlink"
    /\ files' = IF deleter.audio_filename # None
                THEN files \ {deleter.audio_filename[1]}
                ELSE files
    /\ deleter' = [deleter EXCEPT !.pc = "delete"]
    /\ UNCHANGED <<rows, upload, replies, requests>>
    /\ UNCHANGED <<summVars, callVars, resum>>

\* "db.delete(session); db.commit()" and the 204 response.
DeleteCommit ==
    /\ deleter.pc = "delete"
    /\ rows' = [i \in DOMAIN rows \ {deleter.id} |-> rows[i]]
    /\ replies' = replies \cup {Reply(deleter.req, "delete", deleter.id, 204, None)}
    /\ deleter' = NoDelete
    /\ UNCHANGED <<files, upload, requests>>
    /\ UNCHANGED <<summVars, callVars, resum>>

\* The values of sentence_count that ResummarizeRequest lets through
\* (ge=1, le=20): the least, the default of create_session and the greatest.
SENTENCE_COUNTS == {1, 5, 20}

\* "if not session.transcript": the column is NULL or the empty string.
HasNoTranscript(row) == row.transcript = None \/ row.transcript = Some("")

\* resummarize_session(session_id, body): the query finds no row, 404.
ResumNotFound ==
    /\ resum.pc = "idle"
    /\ requests < MaxRequests
    /\ requests' = requests + 1
    /\ \E id \in IDS :
           /\ id \notin DOMAIN rows
           /\ replies' = replies \cup
                  {Reply(requests + 1, "resummarize", id, 404, None)}
    /\ UNCHANGED <<rows, files, upload, deleter, resum>>
    /\ UNCHANGED <<summVars, callVars>>

\* resummarize_session: the row has no transcript, 400.
ResumNoTranscript ==
    /\ resum.pc = "idle"
    /\ requests < MaxRequests
    /\ requests' = requests + 1
    /\ \E id \in IDS :
           /\ id \in DOMAIN rows
           /\ HasNoTranscript(rows[id])
           /\ replies' = replies \cup
                  {Reply(requests + 1, "resummarize", id, 400, None)}
    /\ UNCHANGED <<rows, files, upload, deleter, resum>>
    /\ UNCHANGED <<summVars, callVars>>

\* resummarize_session: the query finds a row with a transcript.
ResumQuery ==
    /\ resum.pc = "idle"
    /\ requests < MaxRequests
    /\ requests' = requests + 1
    /\ \E id \in IDS, sentence_count \in SENTENCE_COUNTS :
           /\ id \in DOMAIN rows
           /\ ~HasNoTranscript(rows[id])
           /\ resum' = [pc |-> "commit", req |-> requests + 1, id |-> id,
                        sentence_count |-> sentence_count,
                        transcript |-> rows[id].transcript[1]]
    /\ UNCHANGED <<rows, files, upload, deleter, replies>>
    /\ UNCHANGED <<summVars, callVars>>

\* Faulty variant of Resummarized: the status is set as create_session
\* sets it.
Resummarized_completed(row, result, req) ==
    [row EXCEPT !.summary = Some(result.summary),
                !.key_points = Some(JsonDumps(result.key_points)),
                !.action_items = Some(JsonDumps(result.action_items)),
                !.status = "completed",
                !.updated_at = req]

\* The row after the UPDATE of resummarize_session: the columns assigned
\* in the try block, the others as they are in the table.
Resummarized(row, result, req) ==
    [row EXCEPT !.summary = Some(result.summary),
                !.key_points = Some(JsonDumps(result.key_points)),
                !.action_items = Some(JsonDumps(result.action_items)),
                !.updated_at = req]

\* resummarize_session, the try block and the return: the UPDATE is made
\* and the refreshed session returned, or the row is gone, db.commit()
\* raises and the except block answers 500.
ResumCommit ==
    /\ resum.pc = "commit"
    /\ IF resum.id \in DOMAIN rows
       THEN /\ rows' = [rows EXCEPT ![resum.id] =
                           Resummarized(@, summarize_transcript(resum.transcript,
                                                                resum.sentence_count),
                                        resum.req)]
            /\ replies' = replies \cup
                   {Reply(resum.req, "resummarize", resum.id, 200,
                          Some(Resummarized(rows[resum.id],
                                            summarize_transcript(resum.transcript,
                                                                 resum.sentence_count),
                                            resum.req)))}
       ELSE /\ replies' = replies \cup
                   {Reply(resum.req, "resummarize", resum.id, 500, None)}
            /\ UNCHANGED rows
    /\ resum' = NoResum
    /\ UNCHANGED <<files, upload, deleter, requests>>
    /\ UNCHANGED <<summVars, callVars>>

\* The steps of create_session.
UploadStep ==
    \/ UploadReject400
    \/ UploadReject413
    \/ UploadAccept
    \/ UploadCreate
    \/ UploadSave
    \/ UploadTranscribing
    \/ UploadTranscribe
    \/ UploadSummarizing
    \/ UploadSummarize
    \/ UploadCompleted
    \/ UploadExcept

NextUploads == UploadStep \/ GetSession

\* create_session and get_session requests, no session being deleted.
SpecUploads == Init /\ [][NextUploads]_vars

NextSessions ==
    UploadStep \/ GetSession \/ DeleteNotFound \/ DeleteQuery \/ DeleteUnlink
        \/ DeleteCommit

\* create_session, get_session and delete_session requests.
SpecSessions == Init /\ [][NextSessions]_vars

\* Recordings uploaded in one behaviour of SpecResum.
MaxUploads == 2

\* create_session of a recording that passes both checks: the first
\* MaxUploads requests may be uploads of talk.mp3.
UploadRecording ==
    /\ upload.pc = "idle"
    /\ requests < MaxUploads
    /\ upload' = [NoUpload EXCEPT !.pc = "create",
                                  !.req = requests + 1,
                                  !.filename = "talk.mp3"]
    /\ requests' = requests + 1
    /\ UNCHANGED <<rows, files, deleter, replies>>
    /\ UNCHANGED <<summVars, callVars, resum>>

NextResum ==
    UploadRecording \/ UploadCreate \/ UploadSave \/ UploadTranscribing
        \/ UploadTranscribe \/ UploadSummarizing \/ UploadSummarize
        \/ UploadCompleted \/ UploadExcept
        \/ ResumNotFound \/ ResumNoTranscript \/ ResumQuery \/ ResumCommit
        \/ DeleteQuery \/ DeleteUnlink \/ DeleteCommit

\* Accepted create_session requests, resummarize_session and delete_session
\* requests.
SpecResum == Init /\ [][NextResum]_vars

(***************************************************************************)
(* Properties                                                              *)
(***************************************************************************)

\* The surviving sentences of the transcript.
Sentences == _split_sentences(text)

Done == pc = "done"

\* The text is empty or consists only of whitespace.
OnlyWhitespace(s) == \A i \in 1..Len(s) : Ch(s, i) \in WHITESPACE

\* s is t without its leading and trailing whitespace.
IsTrimOf(s, t) ==
    \E a \in 1..(Len(t) + 1) :
        /\ a + Len(s) - 1 <= Len(t)
        /\ SubSeq(t, a, a + Len(s) - 1) = s
        /\ \A i \in 1..(a - 1) : Ch(t, i) \in WHITESPACE
        /\ \A i \in (a + Len(s))..Len(t) : Ch(t, i) \in WHITESPACE
        /\ s # "" => Ch(s, 1) \notin WHITESPACE /\ Ch(s, Len(s)) \notin WHITESPACE

\* C1: for every count n >= 1 and every text that is empty or only
\* whitespace, summarize_transcript returns the all-empty result and calls
\* neither the splitter nor an extractor.
C1_EmptyInput ==
    (Done /\ num_sentences >= 1 /\ OnlyWhitespace(text)) =>
        /\ call.result = [summary |-> "", key_points |-> <<>>, action_items |-> <<>>]
        /\ call.calls = <<>>

\* A whitespace-only, non-empty transcript was summarized.
C1_Witness ==
    /\ Done
    /\ num_sentences >= 1
    /\ text # ""
    /\ OnlyWhitespace(text)
    /\ call.result.summary = ""
    /\ call.calls = <<>>

\* C2: for every count below 1 the call is rejected with an input-validation
\* error before any processing, and no summary is produced.
C2_RejectsCountBelowOne ==
    (Done /\ num_sentences < 1) => call.path = "invalid_argument" /\ call.calls = <<>>

\* C3 as stated: when no more than n sentences survive the splitter, the
\* summary is exactly those sentences joined by single spaces.
C3_ShortInputIsJoinedSentences ==
    (Done /\ num_sentences >= 1 /\ Len(Sentences) <= num_sentences) =>
        call.result.summary = Join(Sentences)

\* C3 amended: on the direct path (at most 50 surviving sentences), when no
\* more than n sentences survive, the summary is the original text without
\* its leading and trailing whitespace: it holds the surviving sentences in
\* order, and also the fragments the splitter discards and the original
\* whitespace between sentences.
C3_ShortInputIsTrimmedText ==
    (Done /\ num_sentences >= 1 /\ Len(Sentences) <= num_sentences
          /\ Len(Sentences) <= 50) =>
        /\ IsTrimOf(call.result.summary, text)
        /\ _split_sentences(call.result.summary) = Sentences

\* A transcript with a discarded fragment and a surviving sentence was
\* summarized with a count it does not exceed; the fragment is in the
\* summary.
C3_Witness ==
    /\ Done
    /\ num_sentences >= 1
    /\ Len(Sentences) = 1
    /\ call.result.summary # Join(Sentences)
    /\ call.result.summary = "OK. The weather is nice today."

\* The sentences of the summary returned.
SummarySentences == _split_sentences(call.result.summary)

\* Least index of sentences at or after from that holds x; 0 if none.
IndexFrom(sentences, x, from) ==
    IF \E j \in from..Len(sentences) : sentences[j] = x
    THEN CHOOSE j \in from..Len(sentences) :
             /\ sentences[j] = x
             /\ \A i \in from..(j - 1) : sentences[i] # x
    ELSE 0

\* q[p..] can be found, in order, among sentences[from..].
RECURSIVE IsSubseqFrom(_, _, _, _)
IsSubseqFrom(q, p, sentences, from) ==
    IF p > Len(q) THEN TRUE
    ELSE LET j == IndexFrom(sentences, q[p], from)
         IN  j # 0 /\ IsSubseqFrom(q, p + 1, sentences, j + 1)

\* q is a subsequence of sentences.
IsSubseq(q, sentences) == IsSubseqFrom(q, 1, sentences, 1)

\* C4: for every n >= 1 and every text with more than n surviving
\* sentences, on the direct and on the map-reduce path, the summary is the
\* single-space join of a subsequence of the surviving sentences: each
\* sentence of the summary is an unaltered sentence of the text and they
\* come in the text's order.
C4_OrderPreserved ==
    (Done /\ num_sentences >= 1 /\ Len(Sentences) > num_sentences) =>
        /\ call.result.summary = Join(SummarySentences)
        /\ IsSubseq(SummarySentences, Sentences)

\* A long transcript was summarized on the map-reduce path and the
\* selected sentences are not a prefix of the transcript.
C4_Witness ==
    /\ Done
    /\ call.path = "map_reduce"
    /\ num_sentences >= 2
    /\ Len(Sentences) > num_sentences
    /\ Len(SummarySentences) = num_sentences
    /\ SummarySentences # SubSeq(Sentences, 1, num_sentences)

\* C5: on the direct path, with n >= 1 and n < S <= 50 surviving
\* sentences, splitting the summary again yields exactly n sentences.
C5_ExactlyNSentences ==
    (Done /\ num_sentences >= 1 /\ Len(Sentences) > num_sentences
          /\ Len(Sentences) <= 50) =>
        /\ call.path = "direct"
        /\ Len(SummarySentences) = num_sentences

\* A transcript of exactly 50 sentences was summarized to 3.
C5_Witness ==
    /\ Done
    /\ call.path = "direct"
    /\ Len(Sentences) = 50
    /\ num_sentences = 3
    /\ Len(SummarySentences) = 3

\* C6: for every text and every n, on both paths, key_points has at most 7
\* entries.
C6_AtMostSevenKeyPoints == Done => Len(call.result.key_points) <= 7

\* A transcript with more than 7 candidate points got exactly 7 key points.
C6_Witness ==
    /\ Done
    /\ Len(Sentences) > 7
    /\ Len(call.result.key_points) = 7

\* Pattern k matches the lower-case sentence sl with word boundaries bounds.
PatternMatches(k, sl, bounds) == Search(ACTION_PATTERNS[k], sl, bounds)

\* The lower-case sentence sl matches at least one action pattern.
MatchesSome(sl, bounds) ==
    \E k \in 1..Len(ACTION_PATTERNS) : PatternMatches(k, sl, bounds)

\* Sentence s matches at least one action pattern.
MatchesAny(s) == MatchesSome(Lower(s), Boundaries(Lower(s)))

\* The candidate item of a sentence: without its trailing periods.
ItemOf(s) == RStripDots(Strip(s))

\* Per sentence: whether it matches a pattern.
MatchingOf(sentences) ==
    Table([k \in 1..Len(sentences) |-> MatchesAny(sentences[k])])

\* Per sentence: its content, the item in lower case.
ContentsOf(sentences) ==
    Table([k \in 1..Len(sentences) |-> Lower(ItemOf(sentences[k]))])

\* Per surviving sentence of the transcript: whether it matches a pattern.
Matching == MatchingOf(Sentences)

\* Per surviving sentence of the transcript: its content.
Contents == ContentsOf(Sentences)

\* No two entries of items are equal under case-insensitive comparison.
NoTwoEqual(items) ==
    \A a, b \in 1..Len(items) : Lower(items[a]) = Lower(items[b]) => a = b

\* The entries of items whose lower-case form is content.
EntriesFor(items, content) ==
    {a \in 1..Len(items) : Lower(items[a]) = content}

\* The matching sentences whose text equals that of sentence k up to letter
\* case.
SameText(sentences, matching, k) ==
    {j \in 1..Len(sentences) :
        matching[j] /\ Lower(sentences[j]) = Lower(sentences[k])}

\* The matching sentences whose content equals that of sentence k.
SameContent(matching, contents, k) ==
    {j \in 1..Len(contents) : matching[j] /\ contents[j] = contents[k]}

Least(S) == CHOOSE x \in S : \A y \in S : x <= y

\* C7 as stated, for the sentences sentences and the items items.
ExactlyOneKept(sentences, matching, contents, items) ==
    /\ NoTwoEqual(items)
    /\ \A k \in 1..Len(sentences) :
           (matching[k] /\ Cardinality(SameText(sentences, matching, k)) >= 2) =>
               /\ Cardinality(EntriesFor(items, contents[k])) = 1
               /\ \A a \in EntriesFor(items, contents[k]) :
                      items[a] = ItemOf(sentences[Least(SameText(sentences, matching, k))])

\* C7 as stated: no two action items are equal under case-insensitive
\* comparison, and when several matching sentences have the same content
\* up to letter case, exactly one entry is kept, the text of the earliest
\* of them (without its trailing periods).
C7_ExactlyOneEntryKept ==
    Done => ExactlyOneKept(Sentences, Matching, Contents, call.result.action_items)

\* C7 amended, for the sentences sentences and the items items.
OneKeptIfLong(sentences, matching, contents, items) ==
    /\ NoTwoEqual(items)
    /\ \A k \in 1..Len(sentences) :
           matching[k] =>
               IF Len(contents[k]) > 15
               THEN /\ Cardinality(EntriesFor(items, contents[k])) = 1
                    /\ \A a \in EntriesFor(items, contents[k]) :
                           items[a] = ItemOf(sentences[Least(SameContent(matching, contents, k))])
               ELSE EntriesFor(items, contents[k]) = {}

\* C7 amended: no two action items are equal under case-insensitive
\* comparison; matching sentences with the same content up to letter case
\* and trailing periods give exactly one entry when that content, without
\* the trailing periods, is longer than 15 characters (the earliest such
\* sentence without its trailing periods), and no entry otherwise.
C7_OneEntryPerLongContent ==
    Done => OneKeptIfLong(Sentences, Matching, Contents, call.result.action_items)

\* Two matching sentences that differ only in letter case were scanned and
\* one item, the first sentence's, was kept.
C7_Witness ==
    /\ Done
    /\ Len(Sentences) = 2
    /\ Sentences[1] # Sentences[2]
    /\ Lower(Sentences[1]) = Lower(Sentences[2])
    /\ MatchesAny(Sentences[1])
    /\ call.result.action_items = <<ItemOf(Sentences[1])>>

\* The patterns tried on the lower-case sentence sl are the first ones of
\* the list in list order, none before the last matches, and the last
\* matches unless the list was exhausted.
FirstMatchOnly(sl, bounds, tried) ==
    /\ tried # <<>>
    /\ Len(tried) <= 13
    /\ \A p \in 1..Len(tried) : tried[p] = p
    /\ \A p \in 1..(Len(tried) - 1) : ~PatternMatches(p, sl, bounds)
    /\ Len(tried) < 13 => PatternMatches(Len(tried), sl, bounds)

\* C8 for the sentences sentences, the searches tested and the items items.
FirstMatchWins(sentences, tested, items) ==
    /\ Len(tested) = Len(sentences)
    /\ \A k \in 1..Len(sentences) :
           /\ FirstMatchOnly(Lower(sentences[k]), Boundaries(Lower(sentences[k])),
                             tested[k])
           /\ Cardinality({a \in 1..Len(items) : items[a] = ItemOf(sentences[k])}) <= 1
    /\ Len(items) <= Len(sentences)

\* C8: for each sentence the action patterns are searched in list order
\* and the search stops at the first pattern that matches; a sentence
\* contributes at most one action item, and there are never more action
\* items than surviving sentences.
C8_FirstMatchWins ==
    Done => FirstMatchWins(Sentences, call.tested, call.result.action_items)

\* A sentence matching both "should" and "must" was scanned: the search
\* stopped at "should" and the sentence is in the items once.
C8_Witness ==
    /\ Done
    /\ Len(Sentences) = 2
    /\ Sentences[2] = "You should and must reply."
    /\ PatternMatches(3, Lower(Sentences[2]), Boundaries(Lower(Sentences[2])))
    /\ PatternMatches(5, Lower(Sentences[2]), Boundaries(Lower(Sentences[2])))
    /\ call.tested[2] = <<1, 2, 3>>
    /\ Cardinality({a \in 1..Len(call.result.action_items) :
                       call.result.action_items[a] = "You should and must reply"}) = 1

\* The sentences that give an item: matching, content longer than 15
\* characters, no earlier matching sentence of the same content.
Kept(matching, contents) ==
    {k \in 1..Len(contents) :
        /\ matching[k]
        /\ Len(contents[k]) > 15
        /\ \A j \in 1..(k - 1) : ~(matching[j] /\ contents[j] = contents[k])}

\* The items of the sentences at the indices order.
ItemsAt(sentences, order) ==
    [p \in 1..Len(order) |-> ItemOf(sentences[order[p]])]

\* C9: the action items are, in order of first appearance, exactly the
\* surviving sentences that match at least one action pattern, are longer
\* than 15 characters and repeat no earlier one, each without its trailing
\* periods: a sentence matching no pattern gives no item.
C9_ItemsAreMatchingSentences ==
    Done => call.result.action_items = ItemsAt(Sentences, SortedSeq(Kept(Matching, Contents)))

\* The transcript "We need to finish the report by Friday. The weather is
\* nice today." gave the single item "We need to finish the report by
\* Friday".
C9_Witness ==
    /\ Done
    /\ Sentences = <<"We need to finish the report by Friday.",
                     "The weather is nice today.">>
    /\ call.result.action_items = <<"We need to finish the report by Friday">>

\* C10: the direct pipeline runs when at most 50 sentences survive
\* (exactly 50 included), the map-reduce pipeline when 51 or more do, and
\* a text of 50 or fewer surviving sentences is never segmented.
C10_BranchBoundary ==
    Done =>
        /\ Len(Sentences) >= 51 =>
               call.path = "map_reduce" /\ call.segments # <<>>
        /\ Len(Sentences) <= 50 =>
               /\ call.segments = <<>>
               /\ call.path = (IF OnlyWhitespace(text) THEN "empty" ELSE "direct")

\* A transcript of exactly 50 surviving sentences went the direct way.
C10_Witness ==
    /\ Done
    /\ Len(Sentences) = 50
    /\ call.path = "direct"
    /\ call.segments = <<>>
    /\ call.calls = <<"_split_sentences", "extract_summary",
                      "extract_key_points", "extract_action_items">>

\* C11: for every text (also one without words, without sentence
\* punctuation, of stop words only, or of discarded fragments only) and
\* every n >= 1, summarize_transcript raises nothing and returns a result
\* with exactly the fields summary, key_points and action_items.
C11_Totality ==
    (Done /\ num_sentences >= 1) =>
        /\ ~SummarizeRaises(text, num_sentences)
        /\ DOMAIN call.result = {"summary", "key_points", "action_items"}

\* A transcript whose first sentence has no word, followed by a sentence
\* with words, was scored and summarized.
C11_Witness ==
    /\ Done
    /\ num_sentences = 1
    /\ Len(Sentences) = 2
    /\ FindWords(Sentences[1]) = <<>>
    /\ FindWords(Sentences[2]) # <<>>
    /\ call.path = "direct"
    /\ call.result.summary # ""

Advances(a, b) ==
    \/ a = b
    \/ a = "uploading" /\ b = "transcribing"
    \/ a = "transcribing" /\ b = "summarizing"
    \/ a = "summarizing" /\ b = "completed"
    \/ a \in {"uploading", "transcribing", "summarizing"} /\ b = "error"

\* The response of a create_session that passed the checks: 201 with the
\* session, completed with transcript and summary, or error with
\* error_message.
ReturnsFinal(r) ==
    /\ r.code = 201
    /\ r.session # None
    /\ \/ /\ r.session[1].status = "completed"
          /\ r.session[1].transcript # None
          /\ r.session[1].summary # None
       \/ /\ r.session[1].status = "error"
          /\ r.session[1].error_message # None

\* C13: the status of a session starts as uploading and only advances
\* uploading -> transcribing -> summarizing -> completed, or to error from
\* one of the first three; a create_session that passed the checks ends by
\* returning the session, completed (transcript and summary set) if no step
\* raised, error (error_message set) if one did, and never lets the
\* exception out.
C13_Lifecycle ==
    [][/\ \A id \in DOMAIN rows' \ DOMAIN rows : rows'[id].status = "uploading"
       /\ \A id \in DOMAIN rows' \cap DOMAIN rows :
              Advances(rows[id].status, rows'[id].status)
       /\ \A r \in replies' \ replies :
              (r.op = "create" /\ r.code \notin {400, 413}) =>
                  /\ ReturnsFinal(r)
                  /\ r.session[1].status =
                         IF upload.pc = "except" THEN "error" ELSE "completed"]_vars

\* The extension of every stored session and file is a supported one.
OnlySupportedStored ==
    /\ \A id \in DOMAIN rows :
           Lower(rows[id].audio_filename[1][2]) \in SUPPORTED_FORMATS
    /\ \A f \in files : Lower(f[2]) \in SUPPORTED_FORMATS

\* C14: a create_session answered 400 (file name missing or unsupported) or
\* 413 (file too large) leaves the session records and the audio files as
\* they were.
C14_RejectedUploadsLeaveNoTrace ==
    [][(\E r \in replies' \ replies : r.op = "create" /\ r.code \in {400, 413}) =>
           /\ rows' = rows
           /\ files' = files
           /\ OnlySupportedStored']_vars

\* A session was stored, then one upload was answered 400 and one 413, and
\* the stored session and its file are all there is.
C14_Witness ==
    /\ \E r \in replies : r.op = "create" /\ r.code = 201 /\ r.req = 1
    /\ \E r \in replies : r.op = "create" /\ r.code = 400 /\ r.req > 1
    /\ \E r \in replies : r.op = "create" /\ r.code = 413 /\ r.req > 1
    /\ DOMAIN rows = {1}
    /\ Cardinality(files) = 1

\* Nothing of the sessions that a delete_session answered 204 for is left,
\* and every get_session made after that answer was answered 404.
DeletedIsGone ==
    /\ \A r \in replies :
           (r.op = "delete" /\ r.code = 204) =>
               /\ r.id \notin DOMAIN rows
               /\ \A f \in files : f[1] # r.id
    /\ \A r \in replies : (r.op = "get" /\ r.late) => r.code = 404

\* C15: once delete_session has answered 204 for an id, the session record
\* and its audio file do not exist and every later get_session of the id is
\* answered 404, whatever other requests run meanwhile; a delete_session
\* answered 404 changes neither the records nor the files.
C15_DeletedStaysDeleted ==
    [][/\ DeletedIsGone'
       /\ (\E r \in replies' \ replies : r.op = "delete" /\ r.code = 404) =>
              (rows' = rows /\ files' = files)]_vars

\* The matching sentences that no earlier matching sentence has the content
\* of: the candidates that seen does not hold back.
FirstOfContent(matching, contents) ==
    {k \in 1..Len(contents) :
        /\ matching[k]
        /\ \A j \in 1..(k - 1) : ~(matching[j] /\ contents[j] = contents[k])}

\* item is one of items.
HasItem(items, item) == \E a \in 1..Len(items) : items[a] = item

\* A candidate is discarded exactly when it is shorter than limit, and seen
\* holds the kept candidates only.
DiscardsBelow(sentences, matching, contents, items, seen, limit) ==
    /\ \A k \in FirstOfContent(matching, contents) :
           ~HasItem(items, ItemOf(sentences[k])) <=>
               Len(ItemOf(sentences[k])) < limit
    /\ seen = {Lower(items[a]) : a \in 1..Len(items)}

\* C16 as stated: a matched candidate is discarded exactly when it is
\* shorter than 15 characters after stripping, one of exactly 15 characters
\* is kept, and a discarded candidate is not recorded as seen.
C16_DiscardedBelow15 ==
    Done => DiscardsBelow(Sentences, Matching, Contents,
                          call.result.action_items, ActionScan(text).seen, 15)

\* C16, amended: a matched candidate that repeats no earlier one is
\* discarded exactly when it is at most 15 characters long after stripping
\* (one of exactly 15 characters is discarded, one of 16 is kept), and a
\* discarded candidate is not recorded as seen.
C16_DiscardedUpTo15 ==
    Done => DiscardsBelow(Sentences, Matching, Contents,
                          call.result.action_items, ActionScan(text).seen, 16)

\* "We must go home." (candidate of 15 characters) was discarded and "We
\* must go homes." (16 characters) was kept.
C16_Witness ==
    /\ Done
    /\ Sentences = <<"We must go home.", "We must go homes.">>
    /\ Len(ItemOf(Sentences[1])) = 15
    /\ MatchesAny(Sentences[1])
    /\ call.result.action_items = <<"We must go homes">>
    /\ ActionScan(text).seen = {"we must go homes"}

\* s without its last character if that is a period.
DropOnePeriod(s) ==
    IF s # "" /\ Ch(s, Len(s)) = "." THEN SubSeq(s, 1, Len(s) - 1) ELSE s

\* s without all the periods it ends in.
DropAllPeriods(s) == SubSeq(s, 1, SkipDotsBack(s, Len(s)))

\* Every entry of items is a sentence of sentences, cleaned by clean.
EachIsCleaned(items, sentences, clean(_)) ==
    \A a \in 1..Len(items) :
        \E k \in 1..Len(sentences) : items[a] = clean(sentences[k])

\* C17 as stated: every action item and every key point is the text of its
\* source sentence with at most one trailing period removed; a sentence
\* ending in several periods loses only the last one.
C17_OnePeriodStripped ==
    Done =>
        /\ EachIsCleaned(call.result.action_items, Sentences, DropOnePeriod)
        /\ EachIsCleaned(call.result.key_points, Sentences, DropOnePeriod)

\* C17, amended: every action item and every key point is the text of its
\* source sentence with all of its trailing periods removed; a sentence
\* ending in an ellipsis loses all three periods, and no other character is
\* removed.
C17_AllPeriodsStripped ==
    Done =>
        /\ EachIsCleaned(call.result.action_items, Sentences, DropAllPeriods)
        /\ EachIsCleaned(call.result.key_points, Sentences, DropAllPeriods)
        /\ \A a \in 1..Len(call.result.action_items) :
               Ch(call.result.action_items[a], Len(call.result.action_items[a])) # "."
        /\ \A a \in 1..Len(call.result.key_points) :
               Ch(call.result.key_points[a], Len(call.result.key_points[a])) # "."

\* "We will wait for it..." gave the action item and the key point "We
\* will wait for it".
C17_Witness ==
    /\ Done
    /\ Sentences = <<"We will wait for it...">>
    /\ call.result.action_items = <<"We will wait for it">>
    /\ call.result.key_points = <<"We will wait for it">>

\* Per surviving sentence, its alphabetic words in lower case.
WordsOf(sentences) ==
    Table([k \in 1..Len(sentences) |-> FindWords(sentences[k])])

\* How many times w occurs in the sentences whose words are words.
Occurrences(words, w) ==
    SumSeq([k \in 1..Len(words) |->
               Cardinality({m \in 1..Len(words[k]) : words[k][m] = w})])

\* The retained words of all the sentences.
RetainedOf(words) ==
    {w \in UNION {{words[k][m] : m \in 1..Len(words[k])} : k \in 1..Len(words)} :
        IsRetained(w)}

\* The occurrences of the most frequent retained word, 1 if there is none.
MostOccurrences(words) ==
    IF RetainedOf(words) = {} THEN 1
    ELSE SetMax({Occurrences(words, w) : w \in RetainedOf(words)})

\* The occurrences, in all sentences, of the retained words of sentence k,
\* a word counted once for each time the sentence has it.
RetainedSum(words, k) ==
    SumSeq([m \in 1..Len(words[k]) |->
               IF IsRetained(words[k][m]) THEN Occurrences(words, words[k][m])
               ELSE 0])

\* The retained words of sentence k, with repetitions.
RetainedWords(words, k) == SelectSeq(words[k], IsRetained)

\* The score of sentence k is the sum of the normalized frequencies of its
\* retained words divided by divisor, times the positional boost; 0 if
\* divisor is 0.
ScoreIs(scored, words, k, divisor) ==
    IF divisor = 0 THEN scored[k].score[1] = 0
    ELSE RatEq(scored[k].score,
               <<RetainedSum(words, k) * Boost(k - 1, Len(words)),
                 MostOccurrences(words) * divisor * 10>>)

\* C18 as stated: before the positional boost the score of each sentence is
\* the sum of the normalized frequencies of its retained words divided by
\* the count of its retained words; a sentence without retained words
\* scores 0.
DividedByRetained(scored, words) ==
    \A k \in 1..Len(words) : ScoreIs(scored, words, k, Len(RetainedWords(words, k)))

\* C18, amended: the divisor is the count of all the alphabetic words of
\* the sentence.
DividedByAllWords(scored, words) ==
    \A k \in 1..Len(words) :
        /\ ScoreIs(scored, words, k, Len(words[k]))
        /\ RetainedWords(words, k) = <<>> => scored[k].score[1] = 0

\* C18 as stated, for the scores of the surviving sentences of the
\* transcript.
C18_ScoreOverRetainedWords ==
    Done => DividedByRetained(_score_sentences(Sentences), WordsOf(Sentences))

\* C18, amended: before the positional boost, each sentence's score is the
\* sum of the normalized frequencies of its retained words (alphabetic, not
\* a stop word, length > 2) divided by the count of all its alphabetic
\* words; stop words and words of length <= 2 add nothing to the numerator
\* but count in the denominator, and a sentence with zero retained words
\* scores 0.
C18_ScoreOverAllWords ==
    Done => DividedByAllWords(_score_sentences(Sentences), WordsOf(Sentences))

\* "We must go homes." has four words, of which "must" and "homes" are
\* retained, each the most frequent: as the first of two sentences its
\* score is 1.2 * 2/4, not 1.2 * 2/2; "It is what it is." scores 0.
C18_Witness ==
    /\ Done
    /\ Sentences = <<"We must go homes.", "It is what it is.">>
    /\ FindWords(Sentences[1]) = <<"we", "must", "go", "homes">>
    /\ RetainedWords(WordsOf(Sentences), 1) = <<"must", "homes">>
    /\ RatEq(_score_sentences(Sentences)[1].score, <<24, 40>>)
    /\ RetainedWords(WordsOf(Sentences), 2) = <<>>
    /\ RatEq(_score_sentences(Sentences)[2].score, <<0, 1>>)

\* The sentences (numbered from 1) of the entries top.
SelectedOf(top) == {top[p].index + 1 : p \in 1..Len(top)}

\* The selection sel takes the highest scores and, of equal scores, the
\* lower indices: no sentence left out scores more than a selected one, and
\* no selected sentence has an equal-scored sentence of lower index left
\* out.
LowerIndexFirst(scored, sel) ==
    \A i \in sel : \A j \in 1..Len(scored) :
        /\ j \notin sel => ~RatLess(scored[i].score, scored[j].score)
        /\ (j < i /\ RatEq(scored[i].score, scored[j].score)) => j \in sel

\* The top n of sentences are chosen with the lower index first, and given
\* is what extract_summary or extract_key_points made of them.
ChosenLowerFirst(sentences, top, made, given) ==
    /\ LowerIndexFirst(_score_sentences(sentences), SelectedOf(top))
    /\ given = made

\* C19: when extract_summary or extract_key_points takes the top N
\* sentences by score, of two sentences of equal score the one of lower
\* index is preferred: no sentence is selected while an equal-scored
\* sentence of lower index is left out.
C19_TieBreakLowerIndex ==
    (Done /\ call.path = "direct") =>
        /\ ChosenLowerFirst(Sentences, TopInOrder(Sentences, MAX_POINTS),
                            CleanPoints(Texts(TopInOrder(Sentences, MAX_POINTS))),
                            call.result.key_points)
        /\ Len(Sentences) > num_sentences =>
               ChosenLowerFirst(Sentences, TopInOrder(Sentences, num_sentences),
                                Join(Texts(TopInOrder(Sentences, num_sentences))),
                                call.result.summary)

\* Of the eight sentences of EIGHT, the third, fifth and seventh score the
\* same and so do the second, fourth and sixth: the summary of two took the
\* first and the third, and the seven key points left out the sixth.
C19_Witness ==
    /\ Done
    /\ text = EIGHT
    /\ num_sentences = 2
    /\ RatEq(_score_sentences(Sentences)[3].score, _score_sentences(Sentences)[5].score)
    /\ RatEq(_score_sentences(Sentences)[2].score, _score_sentences(Sentences)[6].score)
    /\ SelectedOf(TopInOrder(Sentences, num_sentences)) = {1, 3}
    /\ SelectedOf(TopInOrder(Sentences, MAX_POINTS)) = {1, 2, 3, 4, 5, 7, 8}
    /\ call.result.key_points =
           <<"We must go homes", "We will wait for it", "We must go homes",
             "We will wait for it", "We must go homes", "We must go homes",
             "We will wait for it">>

\* The number of segments of count sentences.
SegmentCount(count) == (count + SEGMENT_SIZE - 1) \div SEGMENT_SIZE

\* The sentences of segment k, segments numbered from 1.
SegmentSentences(sentences, k) ==
    SubSeq(sentences, (k - 1) * SEGMENT_SIZE + 1,
           IF k * SEGMENT_SIZE < Len(sentences) THEN k * SEGMENT_SIZE
           ELSE Len(sentences))

\* segments cut sentences into consecutive runs of SEGMENT_SIZE, the last
\* run of 1 to SEGMENT_SIZE: every sentence is in exactly one segment.
IsPartition(sentences, segments) ==
    /\ Len(segments) = SegmentCount(Len(sentences))
    /\ \A k \in 1..Len(segments) :
           /\ segments[k] = Join(SegmentSentences(sentences, k))
           /\ _split_sentences(segments[k]) = SegmentSentences(sentences, k)
           /\ Len(_split_sentences(segments[k])) >= 1
           /\ Len(_split_sentences(segments[k])) <= SEGMENT_SIZE
           /\ k < Len(segments) =>
                  Len(_split_sentences(segments[k])) = SEGMENT_SIZE
    /\ Flatten(Table([k \in 1..Len(segments) |-> _split_sentences(segments[k])]))
           = sentences

\* The summary of a segment: at most SEGMENT_SUMMARY_LEN sentences, all
\* sentences of the segment.
IsOwnSummary(segment_sentences, summary_sentences) ==
    /\ Len(summary_sentences) <= SEGMENT_SUMMARY_LEN
    /\ \A p \in 1..Len(summary_sentences) :
           \E m \in 1..Len(segment_sentences) :
               summary_sentences[p] = segment_sentences[m]

\* The map step made segments, segment_summaries and combined of sentences.
MapStepHolds(sentences, segments, segment_summaries, combined) ==
    /\ IsPartition(sentences, segments)
    /\ Len(segment_summaries) = Len(segments)
    /\ \A k \in 1..Len(segments) :
           IsOwnSummary(SegmentSentences(sentences, k),
                        _split_sentences(segment_summaries[k]))
    /\ combined = Join(segment_summaries)

\* C20: on the map-reduce path the surviving sentences are cut into
\* consecutive segments of 20 that do not overlap (only the last may be
\* shorter), every sentence in exactly one segment; each segment summary is
\* at most 3 sentences, all of that segment, and the combined text is the
\* segment summaries joined in segment order.
C20_MapStep ==
    (Done /\ call.path = "map_reduce") =>
        MapStepHolds(Sentences, call.segments, SegmentSummaries(call.segments),
                     call.combined)

\* 61 sentences gave four segments, the last of one sentence, and a
\* combined text of 3 + 3 + 3 + 1 sentences.
C20_Witness ==
    /\ Done
    /\ call.path = "map_reduce"
    /\ Len(Sentences) = 61
    /\ Len(call.segments) = 4
    /\ Len(_split_sentences(call.segments[1])) = 20
    /\ Len(_split_sentences(call.segments[4])) = 1
    /\ Len(_split_sentences(extract_summary(call.segments[1], SEGMENT_SUMMARY_LEN))) = 3
    /\ extract_summary(call.segments[4], SEGMENT_SUMMARY_LEN) = call.segments[4]
    /\ Len(_split_sentences(call.combined)) = 10

\* x is one of xs.
IsIn(xs, x) == \E p \in 1..Len(xs) : xs[p] = x

\* Every entry of points is a sentence of from without its trailing
\* periods.
PointsFrom(points, from) ==
    \A a \in 1..Len(points) :
        \E p \in 1..Len(from) : points[a] = RStripDots(from[p])

\* The sentences of the combined text are those of the segment summaries,
\* in order.
CombinedIsSelected(combined, segment_summaries) ==
    _split_sentences(combined) =
        Flatten(Table([k \in 1..Len(segment_summaries) |->
                          _split_sentences(segment_summaries[k])]))

\* C21: on the map-reduce path action_items is extract_action_items of the
\* original full text (the call the direct pipeline makes), whatever
\* num_sentences and the segments are, while every key point is (without
\* its trailing periods) a sentence of the combined segment summaries, that
\* is a sentence some segment summary selected.
C21_OutputSourcing ==
    (Done /\ call.path = "map_reduce") =>
        /\ call.result.action_items = extract_action_items(text)
        /\ PointsFrom(call.result.key_points, _split_sentences(call.combined))
        /\ CombinedIsSelected(call.combined, SegmentSummaries(call.segments))
        /\ Len(call.result.key_points) <= MAX_POINTS

\* A transcript of 51 sentences whose sentence "The weather is nice today."
\* no segment summary selected: it is no key point, and the action items
\* hold a sentence that is not in the combined text.
C21_Witness ==
    /\ Done
    /\ call.path = "map_reduce"
    /\ Len(Sentences) = 51
    /\ IsIn(Sentences, "The weather is nice today.")
    /\ ~IsIn(_split_sentences(call.combined), "The weather is nice today.")
    /\ ~IsIn(call.result.key_points, "The weather is nice today")
    /\ call.result.key_points # <<>>
    /\ \E a \in 1..Len(call.result.action_items) :
           ~PointsFrom(<<call.result.action_items[a]>>,
                       _split_sentences(call.combined))

\* The fragments of frags whose trimmed length is more than limit.
LongerThan(frags, limit) == {p \in 1..Len(frags) : Len(Strip(frags[p])) > limit}

\* The trimmed fragments of frags at the indices order.
TrimmedAt(frags, order) ==
    [i \in 1..Len(order) |-> Strip(frags[order[i]])]

\* s neither begins nor ends with whitespace.
IsTrimmed(s) ==
    s = "" \/ (Ch(s, 1) \notin WHITESPACE /\ Ch(s, Len(s)) \notin WHITESPACE)

\* sentences is what the filter keeps of the fragments frags of the text t.
FilterKeeps(t, frags, sentences) ==
    /\ sentences = TrimmedAt(frags, SortedSeq(LongerThan(frags, 10)))
    /\ \A k \in 1..Len(sentences) :
           Len(sentences[k]) >= 11 /\ IsTrimmed(sentences[k])
    /\ Len(sentences) <= Len(frags)
    /\ OnlyWhitespace(t) => sentences = <<>>

\* C22: _split_sentences keeps a fragment exactly when its trimmed length
\* is greater than 10 characters (one of exactly 10 characters is
\* discarded), keeps the survivors trimmed and in their original order, and
\* returns the empty sequence for empty or whitespace-only input.
C22_SplitterFilter ==
    Done => FilterKeeps(text, ReSplit(Strip(text)), Sentences)

\* Of "Go to bed." (10 characters) and "Go to beds." (11) only the second
\* was kept.
C22_Witness ==
    /\ Done
    /\ text = "Go to bed. Go to beds. "
    /\ ReSplit(Strip(text)) = <<"Go to bed.", "Go to beds.">>
    /\ Len("Go to bed.") = 10
    /\ Sentences = <<"Go to beds.">>
    /\ call.result.summary = "Go to bed. Go to beds."

\* The columns a resummarize_session leaves alone.
KEPT_COLUMNS ==
    {"status", "title", "language", "word_count", "transcript",
     "audio_filename", "error_message"}

\* The row new is the row old with summary, key_points, action_items and
\* updated_at replaced from result by request req, every other column as it
\* was.
OnlySummaryReplaced(old, new, result, req) ==
    /\ new.summary = Some(result.summary)
    /\ new.key_points = Some(JsonDumps(result.key_points))
    /\ new.action_items = Some(JsonDumps(result.action_items))
    /\ new.updated_at = req
    /\ \A column \in KEPT_COLUMNS : new[column] = old[column]

\* C23: a resummarize_session answered 200 replaces summary, key_points,
\* action_items and updated_at of its session with the result of
\* summarize_transcript(transcript, sentence_count) and leaves the id, the
\* other columns, the other sessions and the audio files as they were; one
\* answered 404 (unknown id) or 400 (no transcript) changes no session and
\* no file.
C23_ResummarizeFrame ==
    [][\A r \in replies' \ replies :
           /\ (r.op = "resummarize" /\ r.code = 200) =>
                  /\ DOMAIN rows' = DOMAIN rows
                  /\ \A id \in DOMAIN rows \ {r.id} : rows'[id] = rows[id]
                  /\ OnlySummaryReplaced(
                         rows[r.id], rows'[r.id],
                         summarize_transcript(rows[r.id].transcript[1],
                                              resum.sentence_count),
                         r.req)
                  /\ r.session = Some(rows'[r.id])
                  /\ files' = files
           /\ (r.op = "resummarize" /\ r.code \in {400, 404}) =>
                  (rows' = rows /\ files' = files)]_vars

\* Session 1 was created with the summary of 5 sentences (the whole
\* transcript) and re-summarized to 1 sentence while another
\* resummarize_session, of an unknown id, was answered 404.
C23_Witness ==
    /\ \E r \in replies :
           /\ r.op = "create" /\ r.code = 201 /\ r.id = 1
           /\ r.session[1].status = "completed"
           /\ r.session[1].summary =
                  Some("We need to finish the report by Friday. The weather is nice today.")
    /\ \E r \in replies :
           /\ r.op = "resummarize" /\ r.code = 200 /\ r.id = 1
           /\ r.session[1].summary = Some("The weather is nice today.")
           /\ r.session[1].updated_at = r.req
    /\ \E r \in replies : r.op = "resummarize" /\ r.code = 404
    /\ 1 \in DOMAIN rows
    /\ rows[1].status = "completed"
    /\ rows[1].title = "We need to finish the report by Friday...."
    /\ rows[1].word_count = Some(13)
    /\ rows[1].action_items = Some("[\"We need to finish the report by Friday\"]")
    /\ files = {<<1, ".mp3">>}

====
